---- MODULE Spec2Model ----
(***************************************************************************)
(* Model of ez-ralph-loop (cig-loop): the loop controller of               *)
(* src/src/index.ts (runLoop, printFinalSummary) and the iteration runner  *)
(* and stream orchestrator of src/src/claude.ts (runClaudeIteration,       *)
(* processEvent and its handlers) with the markdown sanitizer of           *)
(* src/src/markdown.ts.                                                    *)
(*                                                                         *)
(* Text is a sequence of one-character strings.  An optional value         *)
(* (TypeScript `x?: T`) is the empty sequence when undefined and <<v>>     *)
(* when set.                                                               *)
(***************************************************************************)
EXTENDS Integers, Sequences, FiniteSets, TLC

\* ------------------------------------------------------------------------
\* Bounds of the model
\* ------------------------------------------------------------------------

\* cap on the iteration counter (infinite mode never reaches its limit)
MaxLoop == 3

\* cap on the number of chunks read from the process's stdout
MaxReads == 3

\* cap on the length of the free texts fed to the markdown sanitizer
MaxText == 4

\* cap on the number of interior lines of the fenced code blocks fed to it
MaxFenceLines == 2

\* ------------------------------------------------------------------------
\* Text helpers
\* ------------------------------------------------------------------------

\* String.prototype.includes on character sequences
Includes(text, s) ==
  \E k \in 0..(Len(text) - Len(s)) : SubSeq(text, k + 1, k + Len(s)) = s

\* `x || 0` for an optional number
OrZero(opt) == IF opt = <<>> THEN 0 ELSE opt[1]

RECURSIVE SumSeq(_)
SumSeq(s) == IF s = <<>> THEN 0 ELSE s[1] + SumSeq(Tail(s))

\* the backtick character (a string of the module cannot hold it)
Backtick == "BACKTICK"

\* String.prototype.trim: spaces and newlines off both ends
IsSpace(c) == c \in { " ", "\n" }

RECURSIVE TrimLeft(_)
TrimLeft(text) ==
  IF text # <<>> /\ IsSpace(text[1]) THEN TrimLeft(Tail(text)) ELSE text

RECURSIVE TrimRight(_)
TrimRight(text) ==
  IF text # <<>> /\ IsSpace(text[Len(text)])
    THEN TrimRight(SubSeq(text, 1, Len(text) - 1))
    ELSE text

Trim(text) == TrimRight(TrimLeft(text))

\* chalk style applied to a string: escape codes around it, nothing for ""
Styled(style, text) ==
  IF text = <<>> THEN <<>> ELSE << "<" \o style \o ">" >> \o text \o << "</" \o style \o ">" >>

\* text.replace(/[^\n]+/g, m => style(m)): every run of non-newline
\* characters is styled on its own
RECURSIVE StyleLines(_, _, _)
StyleLines(style, text, run) ==
  IF text = <<>> THEN Styled(style, run)
  ELSE IF text[1] = "\n"
    THEN Styled(style, run) \o << "\n" >> \o StyleLines(style, Tail(text), <<>>)
    ELSE StyleLines(style, Tail(text), Append(run, text[1]))

OrangeLines(text) == StyleLines("orange", text, <<>>)

DimLines(text) == StyleLines("gray", text, <<>>)

\* ------------------------------------------------------------------------
\* MarkdownStreamer (src/src/markdown.ts)
\* ------------------------------------------------------------------------

\* a new MarkdownStreamer, and the state reset() leaves
MdFresh ==
  [ state |-> "LineStart", lineStartBuf |-> <<>>, inlineCodeBuf |-> <<>>,
    boldBuf |-> <<>>, fenceLineBuf |-> <<>> ]

\* mutant: reset leaves the streamer as it is
MdReset_Keep(md) == md

\* mutant: reset goes back to the line start and keeps the buffers
MdReset_KeepBuffers(md) == [md EXCEPT !.state = "LineStart"]

\* reset()
MdReset(md) == MdFresh

\* /^#*$/ and /^#+$/ on the line-start buffer
AllHashes(buf) == \A k \in 1..Len(buf) : buf[k] = "#"

\* /^`{3,}\s*$/ : a closing fence line
RECURSIVE LeadingTicks(_)
LeadingTicks(line) ==
  IF line # <<>> /\ line[1] = Backtick THEN 1 + LeadingTicks(Tail(line)) ELSE 0

\* mutant: only a line of exactly three backticks closes a fence
IsClosingFence_ExactlyThree(line) == line = << Backtick, Backtick, Backtick >>

IsClosingFence(line) ==
  LET n == LeadingTicks(line)
  IN /\ n >= 3
     /\ \A k \in (n + 1)..Len(line) : line[k] \in { " ", "\t", "\r" }

\* every step returns [md |-> the streamer after the step, out |-> its output]
StepNormal(md, ch) ==
  IF ch = "\n"
    THEN [ md |-> [md EXCEPT !.state = "LineStart", !.lineStartBuf = <<>>], out |-> << "\n" >> ]
  ELSE IF ch = Backtick
    THEN [ md |-> [md EXCEPT !.state = "InlineCode", !.inlineCodeBuf = <<>>], out |-> <<>> ]
  ELSE IF ch = "*"
    THEN [ md |-> [md EXCEPT !.state = "Star1"], out |-> <<>> ]
  ELSE [ md |-> md, out |-> << ch >> ]

\* mutant: a space at the start of a line is taken for the end of a header prefix
StepLineStart_SpaceIsHeader(md, ch) ==
  IF ch = Backtick
    THEN IF Append(md.lineStartBuf, Backtick) = << Backtick, Backtick, Backtick >>
           THEN [ md |-> [md EXCEPT !.lineStartBuf = <<>>, !.state = "CodeFenceOpening"],
                  out |-> <<>> ]
           ELSE [ md |-> [md EXCEPT !.lineStartBuf = Append(@, Backtick)], out |-> <<>> ]
  ELSE IF ch = "#" /\ AllHashes(md.lineStartBuf)
    THEN [ md |-> [md EXCEPT !.lineStartBuf = Append(@, "#")], out |-> <<>> ]
  ELSE IF ch = " " /\ AllHashes(md.lineStartBuf)
    THEN [ md |-> [md EXCEPT !.lineStartBuf = <<>>, !.state = "Normal"], out |-> <<>> ]
  ELSE IF ch = "\n"
    THEN [ md |-> [md EXCEPT !.lineStartBuf = <<>>], out |-> Append(md.lineStartBuf, "\n") ]
  ELSE LET n == StepNormal([md EXCEPT !.lineStartBuf = <<>>, !.state = "Normal"], ch)
       IN [ md |-> n.md, out |-> md.lineStartBuf \o n.out ]

\* stepLineStart
StepLineStart(md, ch) ==
  IF ch = Backtick
    THEN IF Append(md.lineStartBuf, Backtick) = << Backtick, Backtick, Backtick >>
           THEN [ md |-> [md EXCEPT !.lineStartBuf = <<>>, !.state = "CodeFenceOpening"],
                  out |-> <<>> ]
           ELSE [ md |-> [md EXCEPT !.lineStartBuf = Append(@, Backtick)], out |-> <<>> ]
  ELSE IF ch = "#" /\ AllHashes(md.lineStartBuf)
    THEN [ md |-> [md EXCEPT !.lineStartBuf = Append(@, "#")], out |-> <<>> ]
  ELSE IF ch = " " /\ md.lineStartBuf # <<>> /\ AllHashes(md.lineStartBuf)
    THEN [ md |-> [md EXCEPT !.lineStartBuf = <<>>, !.state = "Normal"], out |-> <<>> ]
  ELSE IF ch = "\n"
    THEN [ md |-> [md EXCEPT !.lineStartBuf = <<>>], out |-> Append(md.lineStartBuf, "\n") ]
  ELSE LET n == StepNormal([md EXCEPT !.lineStartBuf = <<>>, !.state = "Normal"], ch)
       IN [ md |-> n.md, out |-> md.lineStartBuf \o n.out ]

StepCodeFenceOpening(md, ch) ==
  IF ch = "\n"
    THEN [ md |-> [md EXCEPT !.state = "CodeFence", !.fenceLineBuf = <<>>], out |-> <<>> ]
    ELSE [ md |-> md, out |-> <<>> ]

\* the two spaces, bar and space put in front of a code line
FencePrefix == << " ", " ", "|", " " >>

StepCodeFence(md, ch) ==
  IF ch = "\n"
    THEN IF IsClosingFence(md.fenceLineBuf)
           THEN [ md |-> [md EXCEPT !.fenceLineBuf = <<>>, !.state = "LineStart",
                                    !.lineStartBuf = <<>>],
                  out |-> <<>> ]
           ELSE [ md |-> [md EXCEPT !.fenceLineBuf = <<>>],
                  out |-> FencePrefix \o md.fenceLineBuf \o << "\n" >> ]
    ELSE [ md |-> [md EXCEPT !.fenceLineBuf = Append(@, ch)], out |-> <<>> ]

StepInlineCode(md, ch) ==
  IF ch = Backtick
    THEN [ md |-> [md EXCEPT !.inlineCodeBuf = <<>>, !.state = "Normal"],
           out |-> Styled("underline", md.inlineCodeBuf) ]
  ELSE IF ch = "\n"
    THEN [ md |-> [md EXCEPT !.inlineCodeBuf = <<>>, !.state = "LineStart",
                             !.lineStartBuf = <<>>],
           out |-> << Backtick >> \o md.inlineCodeBuf \o << "\n" >> ]
  ELSE [ md |-> [md EXCEPT !.inlineCodeBuf = Append(@, ch)], out |-> <<>> ]

StepStar1(md, ch) ==
  IF ch = "*"
    THEN [ md |-> [md EXCEPT !.state = "Bold", !.boldBuf = <<>>], out |-> <<>> ]
    ELSE LET n == StepNormal([md EXCEPT !.state = "Normal"], ch)
         IN [ md |-> n.md, out |-> << "*" >> \o n.out ]

StepBold(md, ch) ==
  IF ch = "*"
    THEN [ md |-> [md EXCEPT !.state = "BoldStar1"], out |-> <<>> ]
  ELSE IF ch = "\n"
    THEN [ md |-> [md EXCEPT !.boldBuf = <<>>, !.state = "LineStart", !.lineStartBuf = <<>>],
           out |-> Styled("bold", md.boldBuf) \o << "\n" >> ]
  ELSE [ md |-> [md EXCEPT !.boldBuf = Append(@, ch)], out |-> <<>> ]

StepBoldStar1(md, ch) ==
  IF ch = "*"
    THEN [ md |-> [md EXCEPT !.boldBuf = <<>>, !.state = "Normal"],
           out |-> Styled("bold", md.boldBuf) ]
    ELSE [ md |-> [md EXCEPT !.boldBuf = @ \o << "*", ch >>, !.state = "Bold"],
           out |-> <<>> ]

MdStep(md, ch) ==
  CASE md.state = "LineStart"        -> StepLineStart(md, ch)
    [] md.state = "Normal"           -> StepNormal(md, ch)
    [] md.state = "CodeFenceOpening" -> StepCodeFenceOpening(md, ch)
    [] md.state = "CodeFence"        -> StepCodeFence(md, ch)
    [] md.state = "InlineCode"       -> StepInlineCode(md, ch)
    [] md.state = "Star1"            -> StepStar1(md, ch)
    [] md.state = "Bold"             -> StepBold(md, ch)
    [] md.state = "BoldStar1"        -> StepBoldStar1(md, ch)

\* feed(text): step through the characters, concatenating the outputs
RECURSIVE MdFeedFrom(_, _, _)
MdFeedFrom(md, text, out) ==
  IF text = <<>> THEN [ md |-> md, out |-> out ]
  ELSE LET n == MdStep(md, text[1])
       IN MdFeedFrom(n.md, Tail(text), out \o n.out)

\* mutant: the streamer forgets where it was at the end of every call
MdFeed_Forgetful(md, text) == [MdFeedFrom(md, text, <<>>) EXCEPT !.md = MdFresh]

MdFeed(md, text) == MdFeedFrom(md, text, <<>>)

\* mutant: the buffered text of a span is returned without its marker
MdFlush_DropMarker(md) ==
  LET out ==
        CASE md.state = "LineStart"  -> md.lineStartBuf
          [] md.state = "InlineCode" -> md.inlineCodeBuf
          [] md.state = "Bold"       -> md.boldBuf
          [] md.state = "BoldStar1"  -> md.boldBuf
          [] OTHER                   -> <<>>
  IN [ md |-> MdFresh, out |-> out ]

\* flush(): what is buffered, by state; the streamer is back at LineStart
MdFlush(md) ==
  LET out ==
        CASE md.state = "LineStart"  -> md.lineStartBuf
          [] md.state = "InlineCode" -> << Backtick >> \o md.inlineCodeBuf
          [] md.state = "Star1"      -> << "*" >>
          [] md.state = "Bold"       -> << "*", "*" >> \o md.boldBuf
          [] md.state = "BoldStar1"  -> << "*", "*" >> \o md.boldBuf \o << "*" >>
          [] md.state = "CodeFence"  ->
               IF ~IsClosingFence(md.fenceLineBuf) /\ md.fenceLineBuf # <<>>
                 THEN FencePrefix \o md.fenceLineBuf
                 ELSE <<>>
          [] OTHER                   -> <<>>
      after ==
        CASE md.state = "LineStart"  -> [md EXCEPT !.lineStartBuf = <<>>]
          [] md.state = "InlineCode" -> [md EXCEPT !.inlineCodeBuf = <<>>]
          [] md.state \in { "Bold", "BoldStar1" } -> [md EXCEPT !.boldBuf = <<>>]
          [] md.state = "CodeFence"  -> [md EXCEPT !.fenceLineBuf = <<>>]
          [] OTHER                   -> md
  IN [ md |-> [after EXCEPT !.state = "LineStart"], out |-> out ]

\* ------------------------------------------------------------------------
\* Iteration result (end of runClaudeIteration)
\* ------------------------------------------------------------------------

\* mutant: the sentinel must be the whole final text
SentinelDetected_Equals(sentinel, finalText) ==
  IF sentinel # <<>> THEN finalText = sentinel ELSE FALSE

\* sentinel check of a configured string against the final text block
SentinelDetected(sentinel, finalText) ==
  IF sentinel # <<>> THEN Includes(finalText, sentinel) ELSE FALSE

MakeResult(cfg, iteration, exitCode, durationMs, tokenUsage, costUsd, out, finalText) ==
  [ iteration              |-> iteration,
    success                |-> (exitCode = 0),
    exitCode               |-> exitCode,
    durationMs             |-> durationMs,
    tokenUsage             |-> tokenUsage,
    costUsd                |-> costUsd,
    output                 |-> out,
    stopStringDetected     |-> SentinelDetected(cfg.stopString, finalText),
    continueStringDetected |-> SentinelDetected(cfg.continueString, finalText),
    finalResponse          |-> finalText ]

\* ------------------------------------------------------------------------
\* State
\* ------------------------------------------------------------------------

VARIABLES
  \* --- runLoop (src/src/index.ts) ---
  config,        \* LoopConfig: iterations, stopString, continueString, delaySeconds,
                 \* logFile, maxLogLines, verbose
  i,             \* the for-loop counter
  loopPc,        \* where runLoop is suspended
  cumulative,    \* CumulativeStats
  stopReason,    \* let stopReason: string | undefined
  result,        \* the IterationResult of the last iteration that returned (optional)
  produced,      \* history: the metrics of every IterationResult produced so far
  summaries,     \* what printFinalSummary has printed, in order
  footerActive,  \* StickyFooter activated and not yet deactivated
  handlers,      \* SIGINT/SIGTERM listeners are registered
  sleeps,        \* history: the iterations after which Bun.sleep was awaited
  started,       \* history: the iterations for which runClaudeIteration was called
  logWriter      \* StickyFooter.logWriter: "none", "open", "flushing" (flush() called
                 \* and pending), "flushed" (flush() returned, end() not called), "closed"

loopVars == << config, i, loopPc, cumulative, stopReason, result, produced,
               summaries, footerActive, handlers, sleeps, started, logWriter >>

VARIABLES
  \* --- runClaudeIteration (src/src/claude.ts) ---
  pc,                 \* where runClaudeIteration is suspended
  reads,              \* number of chunks reader.read() has returned
  buffer,             \* let buffer = "": stdout text not yet split into lines
  blocks,             \* const blocks: Record<number, StreamingBlock>
  thinkingStarted,    \* state.thinkingStarted
  hasStreamedContent, \* state.hasStreamedContent
  md,                 \* state.markdownStreamer
  lastTextBlock,      \* state.lastTextBlock
  output,             \* let output = "": the transcript
  tokenUsage,         \* let tokenUsage: TokenUsage | undefined
  costUsd,            \* let costUsd: number | undefined
  liveStats,          \* liveStats (inputTokens, outputTokens, costUsd)
  display,            \* what was written to the footer, in order
  iterResult,         \* the IterationResult returned (optional)
  debugFile,          \* the file named by --debug-file: "absent" or "present"
  \* --- history of the current turn (no code reads these) ---
  turn,               \* number of message_start events seen
  streamed,           \* block indices that received a content_block event this turn
  described,          \* block indices an assistant message described this turn
  dispatched          \* the events given to processEvent, each with the block table
                      \* it found

runVars == << blocks, thinkingStarted, hasStreamedContent, md, lastTextBlock, output,
              tokenUsage, costUsd, liveStats, display, turn, streamed, described,
              dispatched >>

streamVars == << pc, reads, buffer, iterResult, debugFile, runVars >>

VARIABLES
  \* --- a MarkdownStreamer driven on its own (src/src/markdown.ts) ---
  mdText,      \* the text the caller streams through the sanitizer
  mdFed,       \* the part of it given to feed() so far
  streamer,    \* the MarkdownStreamer
  sanitized,   \* what feed() and flush() have returned so far, concatenated
  calls,       \* number of feed() calls made
  resetAt,     \* optional: mdFed, sanitized and the buffered text when reset() was called
  lastFlush,   \* optional: the state flush() found and what it returned
  sanPc        \* "idle" (no sanitizer run), "feeding" or "flushed"

sanVars == << mdText, mdFed, streamer, sanitized, calls, resetAt, lastFlush, sanPc >>

VARIABLES
  \* --- the rerun command of the final summary (src/src/index.ts) ---
  rerunCommand,  \* optional: the command line printed after "Rerun:"
  rerunConfig    \* optional: the LoopConfig of the process started with it

cliVars == << rerunCommand, rerunConfig >>

VARIABLES
  \* --- the subprocess and its pipes (Bun.spawn, src/src/claude.ts) ---
  procState,  \* "running", or "exited" once it closed its streams and exited
  outBuf,     \* chunks written to stdout that reader.read() has not returned yet
  errBuf,     \* the text written to stderr
  decoder,    \* const decoder = new TextDecoder(): the bytes of a character it
              \* has seen the beginning of
  stdoutRead  \* history: all that reader.read() has returned (no code reads it)

procVars == << procState, outBuf, errBuf, decoder, stdoutRead >>

VARIABLES
  \* --- the usage cache (src/src/usage.ts) ---
  clock,            \* Date.now()
  cachedToken,      \* let cachedToken: "unread" (undefined), "none" (null) or "token"
  cachedUsage,      \* let cachedUsage: UsageData | null (optional)
  fetchInProgress,  \* let fetchInProgress: 0 (null) or the promise of a doFetch()
  fetches,          \* the calls of doFetch(), in order: where each one is, and
                    \* what its promise resolved with
  callers           \* the calls of fetchUsage(): where each one is, the promise
                    \* it waits for and what it returned

usageVars == << clock, cachedToken, cachedUsage, fetchInProgress, fetches, callers >>

vars == << loopVars, streamVars, sanVars, cliVars, procVars, usageVars >>

\* ------------------------------------------------------------------------
\* Inputs of the loop controller
\* ------------------------------------------------------------------------

\* config.iterations (0 = infinite)
IterationChoices == 0..MaxLoop

StopStrings == { <<>>, <<"D">>, <<"D", "N">> }

ContinueStrings == { <<>>, <<"C">> }

DelayChoices == { 0, 2 }

\* --log: no log file, or one
LogFiles == { <<>>, << "log" >> }

\* --max-log-lines: 0 keeps the whole log
MaxLogLinesChoices == { 0, 1 }

\* new StickyFooter(logFile, maxLogLines): the writer is opened when a log
\* file is given
NewLogWriter(logFile) == IF logFile # <<>> THEN "open" ELSE "none"

\* closeLog() awaited to its end: flush, end, writer dropped
CloseLog(w) == IF w = "open" THEN "closed" ELSE w

\* closeLog() called without await and followed by process.exit: only the
\* code before its first await has run, that is the call of flush(), which
\* has either returned or is still pending; end() has not been called
CloseLogNotAwaited(w) == IF w = "open" THEN { "flushed", "flushing" } ELSE { w }

\* final text blocks an iteration can end with
FinalTexts == { <<>>, <<"D">>, <<"C">>, <<"C", "D", "N">>, <<"N", "D">> }

\* exit codes of the claude process: success, soft failures, signal deaths
ExitCodes == { 0, 1, 127, 128, 137 }

NoUsage == <<>>

Usage(inTok, outTok) ==
  << [ inputTokens |-> inTok, outputTokens |-> outTok,
       cacheReadTokens |-> 0, cacheCreationTokens |-> 0 ] >>

\* duration, cost and token usage an iteration can report
Metrics ==
  { [ durationMs |-> 1, costUsd |-> <<>>,  tokenUsage |-> NoUsage ],
    [ durationMs |-> 2, costUsd |-> <<3>>, tokenUsage |-> Usage(1, 2) ],
    [ durationMs |-> 1, costUsd |-> <<0>>, tokenUsage |-> Usage(2, 0) ] }

\* ------------------------------------------------------------------------
\* runLoop: pure parts
\* ------------------------------------------------------------------------

NoReason ==
  [ kind |-> "undefined", str |-> <<>>, sigName |-> <<>>, code |-> 0, iter |-> 0 ]

Reason(kind, str, sigName, code, iter) ==
  [ kind |-> kind, str |-> str, sigName |-> sigName, code |-> code, iter |-> iter ]

\* mutant: the loop test is i < maxIterations
WithinBudget_Strict(cfg, n) == cfg.iterations = 0 \/ n < cfg.iterations

\* const maxIterations = config.iterations === 0 ? Infinity : config.iterations
\* (i <= maxIterations)
WithinBudget(cfg, n) == cfg.iterations = 0 \/ n <= cfg.iterations

\* mutant: the delay test is i <= maxIterations
BelowBudget_Inclusive(cfg, n) == cfg.iterations = 0 \/ n <= cfg.iterations

\* (i < maxIterations)
BelowBudget(cfg, n) == cfg.iterations = 0 \/ n < cfg.iterations

\* mutant: the totals are assigned, not added to
UpdateCumulative_Overwrite(cum, n, r) ==
  [ completedIterations |-> n,
    totalDurationMs     |-> r.durationMs,
    totalCostUsd        |-> OrZero(r.costUsd),
    totalInputTokens    |-> IF r.tokenUsage = <<>> THEN 0 ELSE r.tokenUsage[1].inputTokens,
    totalOutputTokens   |-> IF r.tokenUsage = <<>> THEN 0 ELSE r.tokenUsage[1].outputTokens ]

\* mutant: a failed iteration adds nothing to the cost
UpdateCumulative_SkipFailedCost(cum, n, r) ==
  [ completedIterations |-> n,
    totalDurationMs     |-> cum.totalDurationMs + r.durationMs,
    totalCostUsd        |-> cum.totalCostUsd + (IF r.success THEN OrZero(r.costUsd) ELSE 0),
    totalInputTokens    |-> cum.totalInputTokens
                              + (IF r.tokenUsage = <<>> THEN 0 ELSE r.tokenUsage[1].inputTokens),
    totalOutputTokens   |-> cum.totalOutputTokens
                              + (IF r.tokenUsage = <<>> THEN 0 ELSE r.tokenUsage[1].outputTokens) ]

UpdateCumulative(cum, n, r) ==
  [ completedIterations |-> n,
    totalDurationMs     |-> cum.totalDurationMs + r.durationMs,
    totalCostUsd        |-> cum.totalCostUsd + OrZero(r.costUsd),
    totalInputTokens    |-> cum.totalInputTokens
                              + (IF r.tokenUsage = <<>> THEN 0 ELSE r.tokenUsage[1].inputTokens),
    totalOutputTokens   |-> cum.totalOutputTokens
                              + (IF r.tokenUsage = <<>> THEN 0 ELSE r.tokenUsage[1].outputTokens) ]

\* { 9: "SIGKILL", 15: "SIGTERM", 11: "SIGSEGV", 6: "SIGABRT" }[signal] || `signal ${signal}`
SignalName(signal) ==
  CASE signal = 9  -> << "SIGKILL" >>
    [] signal = 15 -> << "SIGTERM" >>
    [] signal = 11 -> << "SIGSEGV" >>
    [] signal = 6  -> << "SIGABRT" >>
    [] OTHER       -> << "signal", signal >>

\* exit codes from which the process counts as killed by a signal
SignalBase == 128

\* mutant: the exit code is looked at before the sentinels
StopDecision_SignalFirst(cfg, r, n) ==
  IF ~r.success /\ r.exitCode >= SignalBase
    THEN Reason("killed", <<>>, SignalName(r.exitCode - SignalBase), r.exitCode, n)
  ELSE IF cfg.stopString # <<>> /\ r.stopStringDetected
    THEN Reason("stop-string", cfg.stopString, <<>>, 0, n)
  ELSE IF cfg.continueString # <<>> /\ ~r.continueStringDetected
    THEN Reason("continue-string", cfg.continueString, <<>>, 0, n)
  ELSE NoReason

\* mutant: the continue-sentinel test is inverted
StopDecision_ContinueInverted(cfg, r, n) ==
  IF cfg.stopString # <<>> /\ r.stopStringDetected
    THEN Reason("stop-string", cfg.stopString, <<>>, 0, n)
  ELSE IF cfg.continueString # <<>> /\ r.continueStringDetected
    THEN Reason("continue-string", cfg.continueString, <<>>, 0, n)
  ELSE IF ~r.success /\ r.exitCode >= SignalBase
    THEN Reason("killed", <<>>, SignalName(r.exitCode - SignalBase), r.exitCode, n)
  ELSE NoReason

\* mutant: exit code 128 itself does not count as a signal death
StopDecision_StrictlyAbove(cfg, r, n) ==
  IF cfg.stopString # <<>> /\ r.stopStringDetected
    THEN Reason("stop-string", cfg.stopString, <<>>, 0, n)
  ELSE IF cfg.continueString # <<>> /\ ~r.continueStringDetected
    THEN Reason("continue-string", cfg.continueString, <<>>, 0, n)
  ELSE IF ~r.success /\ r.exitCode > SignalBase
    THEN Reason("killed", <<>>, SignalName(r.exitCode - SignalBase), r.exitCode, n)
  ELSE NoReason

\* mutant: every non-zero exit code stops the loop
StopDecision_AnyFailureStops(cfg, r, n) ==
  IF cfg.stopString # <<>> /\ r.stopStringDetected
    THEN Reason("stop-string", cfg.stopString, <<>>, 0, n)
  ELSE IF cfg.continueString # <<>> /\ ~r.continueStringDetected
    THEN Reason("continue-string", cfg.continueString, <<>>, 0, n)
  ELSE IF ~r.success
    THEN Reason("killed", <<>>, SignalName(r.exitCode - SignalBase), r.exitCode, n)
  ELSE NoReason

\* the stop conditions evaluated after an iteration returned, in the order
\* of the code; NoReason when the loop goes on
StopDecision(cfg, r, n) ==
  IF cfg.stopString # <<>> /\ r.stopStringDetected
    THEN Reason("stop-string", cfg.stopString, <<>>, 0, n)
  ELSE IF cfg.continueString # <<>> /\ ~r.continueStringDetected
    THEN Reason("continue-string", cfg.continueString, <<>>, 0, n)
  ELSE IF ~r.success /\ r.exitCode >= SignalBase
    THEN Reason("killed", <<>>, SignalName(r.exitCode - SignalBase), r.exitCode, n)
  ELSE NoReason

\* if (!stopReason && maxIterations !== Infinity) stopReason = "all iterations completed";
\* ... stopReason || "loop finished"
FinalReason(cfg, reason) ==
  IF reason # NoReason THEN reason
  ELSE IF cfg.iterations # 0 THEN Reason("all iterations completed", <<>>, <<>>, 0, 0)
  ELSE Reason("loop finished", <<>>, <<>>, 0, 0)

\* the summary printFinalSummary prints: heading by the reason's prefix
PrintFinalSummary(cum, cfg, reason) ==
  LET isFatal       == reason.kind \in { "fatal error on iteration", "fatal error" }
      isInterrupted == reason.kind = "user interrupted"
      isSentinel    == reason.kind \in { "stop-string", "continue-string" }
  IN [ heading    |-> IF isFatal THEN "Cig Loop Crashed"
                      ELSE IF isInterrupted \/ isSentinel THEN "Cig Loop Stopped"
                      ELSE "Cig Loop Complete",
       color      |-> IF isFatal THEN "red"
                      ELSE IF isInterrupted \/ isSentinel THEN "yellow"
                      ELSE "green",
       iterations |-> cum.completedIterations,
       duration   |-> cum.totalDurationMs,
       cost       |-> cum.totalCostUsd,
       tokensIn   |-> cum.totalInputTokens,
       tokensOut  |-> cum.totalOutputTokens,
       reason     |-> reason ]

\* ------------------------------------------------------------------------
\* format.ts helpers used by the event handlers
\* ------------------------------------------------------------------------

ReminderOpen == "<system-reminder>"

ReminderClose == "</system-reminder>"

\* position of the first closing tag after position 1, 0 when there is none
RECURSIVE FirstClose(_, _)
FirstClose(text, k) ==
  IF k > Len(text) THEN 0
  ELSE IF text[k] = ReminderClose THEN k
  ELSE FirstClose(text, k + 1)

\* text.replace(/<system-reminder>[\s\S]*?<\/system-reminder>/g, "")
RECURSIVE RemoveReminders(_)
RemoveReminders(text) ==
  IF text = <<>> THEN <<>>
  ELSE IF text[1] = ReminderOpen /\ FirstClose(text, 2) > 0
    THEN RemoveReminders(SubSeq(text, FirstClose(text, 2) + 1, Len(text)))
    ELSE << text[1] >> \o RemoveReminders(Tail(text))

StripSystemReminders(text) == Trim(RemoveReminders(text))

\* `${getToolIcon(name)} ${chalk.cyan(formatToolUse(name, input))}`: the
\* one-line summary of a tool invocation (its wording is not modelled)
FormatToolUse(name, input) == << "icon", name >> \o input

\* formatToolResult on a plain-text payload: reminders stripped, nothing for
\* blank text, else the indented preview (its layout is not modelled)
FormatToolResult(content) ==
  IF content = <<>> THEN <<>>
  ELSE LET text == StripSystemReminders(StripSystemReminders(content))
       IN IF Trim(text) = <<>> THEN <<>> ELSE << "preview" >> \o text

\* ------------------------------------------------------------------------
\* Events of the stream-json protocol
\* ------------------------------------------------------------------------

\* block indices used by the modelled streams
Indices == { 0, 1 }

Has(rec, field) == field \in DOMAIN rec

BlockStart(idx, block) ==
  [ type |-> "content_block_start", index |-> idx, content_block |-> block ]

BlockDelta(idx, delta) ==
  [ type |-> "content_block_delta", index |-> idx, delta |-> delta ]

BlockStop(idx) == [ type |-> "content_block_stop", index |-> idx ]

TextDelta(text) == [ type |-> "text_delta", text |-> text ]

ThinkingDelta(text) == [ type |-> "thinking_delta", thinking |-> text ]

InputJsonDelta(text) == [ type |-> "input_json_delta", partial_json |-> text ]

TextBlock(text) == [ type |-> "text", text |-> text ]

ToolUseBlock(name, input) == [ type |-> "tool_use", name |-> name, input |-> input ]

ToolResultBlock(content) == [ type |-> "tool_result", content |-> content ]

\* {type: "stream_event", event: {...}}
Envelope(ev) == [ type |-> "stream_event", event |-> ev ]

\* if (event.type === "stream_event" && event.event) event = event.event
Unwrap(ev) == IF ev.type = "stream_event" /\ Has(ev, "event") THEN ev.event ELSE ev

\* ------------------------------------------------------------------------
\* Processing state of one iteration, and the footer
\* ------------------------------------------------------------------------

NoBlocks == [ k \in Indices |-> <<>> ]

RunFresh ==
  [ blocks             |-> NoBlocks,
    thinkingStarted    |-> FALSE,
    hasStreamedContent |-> FALSE,
    md                 |-> MdFresh,
    lastTextBlock      |-> <<>>,
    output             |-> <<>>,
    tokenUsage         |-> <<>>,
    costUsd            |-> <<>>,
    liveStats          |-> [ costUsd |-> 0, inputTokens |-> 0, outputTokens |-> 0 ],
    display            |-> <<>>,
    turn               |-> 0,
    streamed           |-> {},
    described          |-> {},
    dispatched         |-> <<>> ]

\* footer.write / footer.writeln: one entry per call, tagged with the place
\* that made it and the block index it is about (-1 when none)
Write(R, via, idx, text) ==
  [R EXCEPT !.display = Append(@, [ turn |-> R.turn, via |-> via, idx |-> idx, text |-> text ])]

\* state.appendOutput(text)
AppendOutput(R, text) == [R EXCEPT !.output = @ \o text]

\* footer.writeln(text) is footer.write(text + "\n")
Writeln(R, via, idx, text) == Write(R, via, idx, text \o << "\n" >>)

\* ------------------------------------------------------------------------
\* Event handlers (processEvent and what it calls)
\* ------------------------------------------------------------------------

ToolUseEntry(block) ==
  [ type    |-> "tool_use",
    name    |-> IF Has(block, "name") /\ block.name # "" THEN block.name ELSE "tool",
    input   |-> <<>>,
    content |-> <<>> ]

ContentEntry(type) == [ type |-> type, name |-> "", input |-> <<>>, content |-> <<>> ]

HandleBlockStart(R, ev) ==
  IF ~Has(ev, "content_block") THEN R
  ELSE
    LET idx   == ev.index
        block == ev.content_block
        R1    == IF block.type \in { "tool_use", "text", "thinking" }
                   THEN [R EXCEPT !.hasStreamedContent = TRUE]
                   ELSE R
    IN CASE block.type = "tool_use" ->
              [R1 EXCEPT !.blocks[idx] = << ToolUseEntry(block) >>]
         [] block.type = "text" ->
              LET R2 == [R1 EXCEPT !.md = MdReset(@), !.lastTextBlock = <<>>]
                  R3 == Writeln(R2, "text_start", idx, <<>>)
              IN [R3 EXCEPT !.blocks[idx] = << ContentEntry("text") >>]
         [] block.type = "tool_result" ->
              [R1 EXCEPT !.blocks[idx] = << ContentEntry("tool_result") >>]
         [] block.type = "thinking" ->
              [R1 EXCEPT !.blocks[idx] = << ContentEntry("thinking") >>]
         [] OTHER -> R1

\* mutant: the content is assigned the fragment
AppendContent_Overwrite(R, idx, text) ==
  IF R.blocks[idx] # <<>>
    THEN [R EXCEPT !.blocks[idx] = << [@[1] EXCEPT !.content = text] >>]
    ELSE R

\* if (blocks[idx]) blocks[idx].content = (blocks[idx].content || "") + text
AppendContent(R, idx, text) ==
  IF R.blocks[idx] # <<>>
    THEN [R EXCEPT !.blocks[idx] = << [@[1] EXCEPT !.content = @ \o text] >>]
    ELSE R

\* mutant: the last text block is the latest fragment
HandleTextDelta_LastFragment(R, idx, text) ==
  IF text = <<>> THEN R
  ELSE
    LET fed == MdFeed(R.md, text)
        R1  == [R EXCEPT !.hasStreamedContent = TRUE, !.md = fed.md]
        R2  == IF fed.out # <<>> THEN Write(R1, "text_delta", idx, OrangeLines(fed.out)) ELSE R1
        R3  == AppendOutput(R2, text)
        R4  == [R3 EXCEPT !.lastTextBlock = text]
    IN AppendContent(R4, idx, text)

\* case "text_delta" of handleBlockDelta
HandleTextDelta(R, idx, text) ==
  IF text = <<>> THEN R
  ELSE
    LET fed == MdFeed(R.md, text)
        R1  == [R EXCEPT !.hasStreamedContent = TRUE, !.md = fed.md]
        R2  == IF fed.out # <<>> THEN Write(R1, "text_delta", idx, OrangeLines(fed.out)) ELSE R1
        R3  == AppendOutput(R2, text)
        R4  == [R3 EXCEPT !.lastTextBlock = @ \o text]
    IN AppendContent(R4, idx, text)

HandleThinkingDelta(R, idx, thinking) ==
  IF thinking = <<>> THEN R
  ELSE
    LET R1 == IF ~R.thinkingStarted
                THEN [Write(R, "thinking_open", idx, << "\n" >>) EXCEPT !.thinkingStarted = TRUE]
                ELSE R
        R2 == Write(R1, "thinking_delta", idx, DimLines(thinking))
        R3 == AppendOutput(R2, thinking)
    IN AppendContent(R3, idx, thinking)

HandleInputJsonDelta(R, idx, partialJson) ==
  IF partialJson # <<>> /\ R.blocks[idx] # <<>>
    THEN [R EXCEPT !.blocks[idx] = << [@[1] EXCEPT !.input = @ \o partialJson] >>]
    ELSE R

HandleBlockDelta(R, ev) ==
  IF ~Has(ev, "delta") THEN R
  ELSE
    LET idx   == ev.index
        delta == ev.delta
    IN CASE delta.type = "text_delta"       -> HandleTextDelta(R, idx, delta.text)
         [] delta.type = "thinking_delta"   -> HandleThinkingDelta(R, idx, delta.thinking)
         [] delta.type = "input_json_delta" -> HandleInputJsonDelta(R, idx, delta.partial_json)
         [] OTHER                           -> R

\* block.input || "{}"
InputOrEmptyObject(input) == IF input = <<>> THEN << "{", "}" >> ELSE input

HandleBlockStop(R, ev) ==
  LET idx == ev.index
  IN IF R.blocks[idx] = <<>> THEN R
     ELSE
       LET block == R.blocks[idx][1]
           R1 ==
             CASE block.type = "tool_use" ->
                    Writeln(R, "tool_use_stop", idx,
                            FormatToolUse(block.name, InputOrEmptyObject(block.input)))
               [] block.type = "tool_result" ->
                    LET preview == FormatToolResult(block.content)
                        Rp == IF preview # <<>>
                                THEN Writeln(R, "tool_result_stop", idx, preview)
                                ELSE R
                    IN Writeln(Rp, "tool_result_end", idx, <<>>)
               [] block.type = "thinking" ->
                    IF R.thinkingStarted
                      THEN [Writeln(R, "thinking_close", idx, << "\n" >>)
                              EXCEPT !.thinkingStarted = FALSE]
                      ELSE R
               [] block.type = "text" ->
                    LET fl == MdFlush(R.md)
                        Rf == [R EXCEPT !.md = fl.md]
                        Rw == IF fl.out # <<>>
                                THEN Write(Rf, "text_flush", idx, OrangeLines(fl.out))
                                ELSE Rf
                    IN Writeln(Writeln(Rw, "text_end", idx, <<>>), "text_end", idx, <<>>)
       IN [R1 EXCEPT !.blocks[idx] = <<>>]

\* the fallback rendering of one block of a consolidated message; k is the
\* block's position in message.content
RenderAssistantBlock(R, block, k) ==
  IF block.type = "text" /\ Has(block, "text") /\ block.text # <<>>
    THEN LET cleaned == StripSystemReminders(block.text)
         IN IF cleaned # <<>>
              THEN AppendOutput(Writeln(R, "assistant_text", k, cleaned),
                                cleaned \o << "\n" >>)
              ELSE R
  ELSE IF block.type = "tool_use"
    THEN Writeln(R, "assistant_tool_use", k, FormatToolUse(block.name, block.input))
  ELSE IF block.type = "tool_result" /\ Has(block, "content") /\ block.content # <<>>
    THEN LET preview == FormatToolResult(block.content)
         IN IF preview # <<>> THEN Writeln(R, "assistant_tool_result", k, preview) ELSE R
  ELSE R

RECURSIVE RenderAssistantBlocks(_, _, _)
RenderAssistantBlocks(R, content, k) ==
  IF k > Len(content) THEN R
  ELSE RenderAssistantBlocks(RenderAssistantBlock(R, content[k], k - 1), content, k + 1)

HandleAssistantMessage(R, ev) ==
  IF ~Has(ev, "message") \/ ~Has(ev.message, "content") THEN R
  ELSE IF R.hasStreamedContent THEN [R EXCEPT !.hasStreamedContent = FALSE]
  ELSE RenderAssistantBlocks(R, ev.message.content, 1)

\* one tool_result echo of a user message
RenderUserBlock(R, block, k) ==
  IF block.type = "tool_result" /\ Has(block, "content") /\ block.content # <<>>
    THEN IF Has(block, "is_error") /\ block.is_error
           THEN LET cleaned == Trim(block.content)
                IN IF cleaned # <<>>
                     THEN Writeln(Writeln(R, "user_error", k, cleaned), "user_end", k, <<>>)
                     ELSE R
           ELSE LET preview == FormatToolResult(block.content)
                IN IF preview # <<>>
                     THEN Writeln(Writeln(R, "user_result", k, preview), "user_end", k, <<>>)
                     ELSE R
    ELSE R

RECURSIVE RenderUserBlocks(_, _, _)
RenderUserBlocks(R, content, k) ==
  IF k > Len(content) THEN R
  ELSE RenderUserBlocks(RenderUserBlock(R, content[k], k - 1), content, k + 1)

HandleUserMessage(R, ev) ==
  IF ~Has(ev, "message") \/ ~Has(ev.message, "content") THEN R
  ELSE RenderUserBlocks(R, ev.message.content, 1)

HandleResult(R, ev) ==
  IF (Has(ev, "total_cost_usd") /\ ev.total_cost_usd # 0) \/ Has(ev, "usage")
    THEN Writeln(Writeln(R, "result", -1, <<>>), "result", -1, << "Step cost" >>)
    ELSE R

\* one line per MCP server of the init event
RECURSIVE RenderServers(_, _, _)
RenderServers(R, servers, k) ==
  IF k > Len(servers) THEN R
  ELSE RenderServers(Writeln(R, "mcp", -1, << servers[k].name, servers[k].status >>),
                     servers, k + 1)

HandleSystemEvent(R, ev, verbose) ==
  IF Has(ev, "subtype") /\ ev.subtype = "init"
    THEN LET R1 == IF Has(ev, "model") THEN Writeln(R, "model", -1, << ev.model >>) ELSE R
             R2 == IF verbose /\ Has(ev, "session_id")
                     THEN Writeln(R1, "session", -1, << ev.session_id >>)
                     ELSE R1
         IN IF Has(ev, "mcp_servers") THEN RenderServers(R2, ev.mcp_servers, 1) ELSE R2
    ELSE R

\* mutant: an event of an unknown type is reported on the display
ProcessEvent_ReportsUnknown(R, ev, verbose) ==
  CASE ev.type = "system"              -> HandleSystemEvent(R, ev, verbose)
    [] ev.type = "content_block_start" -> HandleBlockStart(R, ev)
    [] ev.type = "content_block_delta" -> HandleBlockDelta(R, ev)
    [] ev.type = "content_block_stop"  -> HandleBlockStop(R, ev)
    [] ev.type = "assistant"           -> HandleAssistantMessage(R, ev)
    [] ev.type = "user"                -> HandleUserMessage(R, ev)
    [] ev.type = "result"              -> HandleResult(R, ev)
    [] ev.type \in { "message_start", "message_delta", "message_stop", "ping" } -> R
    [] OTHER                           -> Writeln(R, "unknown", -1, << "?" >>)

\* processEvent: the switch on event.type
ProcessEvent(R, ev, verbose) ==
  CASE ev.type = "system"              -> HandleSystemEvent(R, ev, verbose)
    [] ev.type = "content_block_start" -> HandleBlockStart(R, ev)
    [] ev.type = "content_block_delta" -> HandleBlockDelta(R, ev)
    [] ev.type = "content_block_stop"  -> HandleBlockStop(R, ev)
    [] ev.type = "assistant"           -> HandleAssistantMessage(R, ev)
    [] ev.type = "user"                -> HandleUserMessage(R, ev)
    [] ev.type = "result"              -> HandleResult(R, ev)
    [] ev.type \in { "message_start", "message_delta", "message_stop", "ping" } -> R
    [] OTHER                           -> R

\* ------------------------------------------------------------------------
\* Framing: stdout text, lines, JSON.parse
\* ------------------------------------------------------------------------

\* stdout is a sequence of characters [c |-> ch]; the JSON text of an event
\* is two characters, its opening and its closing half, so that a read can
\* end in the middle of it
Ch(c) == [ c |-> c ]

NL == Ch("\n")

JsonText(ev) == << [ c |-> "{", ev |-> ev ], [ c |-> "}", ev |-> ev ] >>

\* the characters as display text
LineText(line) == [ k \in 1..Len(line) |-> line[k].c ]

RECURSIVE StripBlankLeft(_)
StripBlankLeft(line) ==
  IF line # <<>> /\ IsSpace(line[1].c) THEN StripBlankLeft(Tail(line)) ELSE line

RECURSIVE StripBlankRight(_)
StripBlankRight(line) ==
  IF line # <<>> /\ IsSpace(line[Len(line)].c)
    THEN StripBlankRight(SubSeq(line, 1, Len(line) - 1))
    ELSE line

\* JSON.parse(line): the event when the line is exactly one JSON text between
\* optional white space, <<>> when it throws
ParseJson(line) ==
  LET t == StripBlankRight(StripBlankLeft(line))
  IN IF /\ Len(t) = 2
        /\ t[1].c = "{"
        /\ t[2].c = "}"
        /\ t[1].ev = t[2].ev
       THEN << t[1].ev >>
       ELSE <<>>

\* buffer.indexOf("\n"), 1-based; 0 when there is none
RECURSIVE IndexOfNewline(_, _)
IndexOfNewline(buf, k) ==
  IF k > Len(buf) THEN 0
  ELSE IF buf[k].c = "\n" THEN k
  ELSE IndexOfNewline(buf, k + 1)

\* ------------------------------------------------------------------------
\* The read loop of runClaudeIteration
\* ------------------------------------------------------------------------

\* the fallback path would render this block of a consolidated message
Renderable(block) ==
  \/ block.type = "text" /\ Has(block, "text") /\ StripSystemReminders(block.text) # <<>>
  \/ block.type = "tool_use"
  \/ block.type = "tool_result" /\ Has(block, "content")
       /\ FormatToolResult(block.content) # <<>>

\* history of the turn: which indices the granular events covered and which
\* the consolidated messages described
Track(R, ev) ==
  IF ev.type = "message_start"
    THEN [R EXCEPT !.turn = @ + 1, !.streamed = {}, !.described = {}]
  ELSE IF ev.type \in { "content_block_start", "content_block_delta", "content_block_stop" }
    THEN [R EXCEPT !.streamed = @ \cup { ev.index }]
  ELSE IF ev.type = "assistant" /\ Has(ev, "message") /\ Has(ev.message, "content")
    THEN [R EXCEPT !.described = @ \cup
            { k - 1 : k \in { n \in 1..Len(ev.message.content) :
                                Renderable(ev.message.content[n]) } }]
  ELSE R

\* await processEvent(event, blocks, ...), recorded in the history
Dispatch(R, ev, verbose) ==
  [ProcessEvent(R, ev, verbose) EXCEPT
     !.dispatched = Append(@, [ ev |-> ev, before |-> R.blocks ])]

\* u.x || 0
Field(rec, field) == IF Has(rec, field) THEN rec[field] ELSE 0

\* mutant: the final token usage is the running total of the live stats
AfterEvent_RunningTotal(R, ev) ==
  IF ev.type = "assistant" /\ Has(ev, "message") /\ Has(ev.message, "usage")
    THEN [R EXCEPT !.liveStats.inputTokens = @ + Field(ev.message.usage, "input_tokens"),
                   !.liveStats.outputTokens = @ + Field(ev.message.usage, "output_tokens")]
  ELSE IF ev.type = "result"
    THEN LET usage == << [ inputTokens         |-> R.liveStats.inputTokens + Field(ev.usage, "input_tokens"),
                           outputTokens        |-> R.liveStats.outputTokens + Field(ev.usage, "output_tokens"),
                           cacheReadTokens     |-> Field(ev.usage, "cache_read_input_tokens"),
                           cacheCreationTokens |-> Field(ev.usage, "cache_creation_input_tokens") ] >>
         IN [R EXCEPT !.tokenUsage = IF Has(ev, "usage") THEN usage ELSE R.tokenUsage,
                      !.costUsd = << Field(ev, "total_cost_usd") >>]
  ELSE R

\* after processEvent: live stats from an assistant message's usage, final
\* token usage and cost from a result event
AfterEvent(R, ev) ==
  IF ev.type = "assistant" /\ Has(ev, "message") /\ Has(ev.message, "usage")
    THEN [R EXCEPT !.liveStats.inputTokens = @ + Field(ev.message.usage, "input_tokens"),
                   !.liveStats.outputTokens = @ + Field(ev.message.usage, "output_tokens")]
  ELSE IF ev.type = "result"
    THEN LET usage == IF Has(ev, "usage")
                        THEN << [ inputTokens         |-> Field(ev.usage, "input_tokens"),
                                  outputTokens        |-> Field(ev.usage, "output_tokens"),
                                  cacheReadTokens     |-> Field(ev.usage, "cache_read_input_tokens"),
                                  cacheCreationTokens |-> Field(ev.usage, "cache_creation_input_tokens") ] >>
                        ELSE R.tokenUsage
             cost  == Field(ev, "total_cost_usd")
         IN [R EXCEPT !.tokenUsage = usage,
                      !.costUsd = << cost >>,
                      !.liveStats = [ costUsd      |-> cost,
                                      inputTokens  |-> IF usage = <<>> THEN 0 ELSE usage[1].inputTokens,
                                      outputTokens |-> IF usage = <<>> THEN 0 ELSE usage[1].outputTokens ]]
  ELSE R

\* mutant: a line that is not JSON is displayed and left out of the transcript
ProcessLine_RawNotRecorded(R, line, verbose) ==
  IF Trim(LineText(line)) = <<>> THEN R
  ELSE
    LET parsed == ParseJson(line)
    IN IF parsed = <<>>
         THEN Writeln(R, "raw", -1, LineText(line))
         ELSE LET ev == Unwrap(parsed[1])
              IN AfterEvent(Track(Dispatch(R, ev, verbose), ev), ev)

\* the body of the inner while loop for one complete line
ProcessLine(R, line, verbose) ==
  IF Trim(LineText(line)) = <<>> THEN R
  ELSE
    LET Rv     == IF verbose THEN Writeln(R, "verbose", -1, Styled("gray", << "[VERBOSE] " >> \o LineText(line))) ELSE R
        parsed == ParseJson(line)
    IN IF parsed = <<>>
         THEN AppendOutput(Writeln(Rv, "raw", -1, LineText(line)),
                           LineText(line) \o << "\n" >>)
         ELSE LET ev == Unwrap(parsed[1])
              IN AfterEvent(Track(Dispatch(Rv, ev, verbose), ev), ev)

\* while ((newlineIdx = buffer.indexOf("\n")) !== -1) { ... }
RECURSIVE ProcessBuffer(_, _, _)
ProcessBuffer(R, buf, verbose) ==
  LET k == IndexOfNewline(buf, 1)
  IN IF k = 0 THEN [ run |-> R, buffer |-> buf ]
     ELSE ProcessBuffer(ProcessLine(R, SubSeq(buf, 1, k - 1), verbose),
                        SubSeq(buf, k + 1, Len(buf)), verbose)

\* "Process remaining buffer" after the read loop
ProcessRemainder(R, buf) ==
  IF Trim(LineText(buf)) # <<>>
    THEN AppendOutput(Writeln(R, "remainder", -1, LineText(buf)),
                      LineText(buf) \o << "\n" >>)
    ELSE R

\* the state of an iteration that has just spawned the process
StreamIdle ==
  /\ pc = "reading"
  /\ reads = 0
  /\ buffer = <<>>
  /\ iterResult = <<>>
  /\ debugFile = "absent"
  /\ blocks = RunFresh.blocks
  /\ thinkingStarted = RunFresh.thinkingStarted
  /\ hasStreamedContent = RunFresh.hasStreamedContent
  /\ md = RunFresh.md
  /\ lastTextBlock = RunFresh.lastTextBlock
  /\ output = RunFresh.output
  /\ tokenUsage = RunFresh.tokenUsage
  /\ costUsd = RunFresh.costUsd
  /\ liveStats = RunFresh.liveStats
  /\ display = RunFresh.display
  /\ turn = RunFresh.turn
  /\ streamed = RunFresh.streamed
  /\ described = RunFresh.described
  /\ dispatched = RunFresh.dispatched

\* the subprocess as Bun.spawn leaves it; the specifications that do not
\* follow the subprocess keep it there
Spawned == procState = "running" /\ outBuf = <<>> /\ errBuf = <<>> /\ decoder = <<>> /\ stdoutRead = <<>>

\* number of calls of fetchUsage
MaxCallers == 3

\* number of calls of doFetch
MaxFetches == 2

NotCalled == [ pc |-> "idle", promise |-> 0, result |-> <<>> ]

\* the module as loaded: nothing read, nothing cached, no fetch in flight
UsageIdle ==
  /\ clock = 0
  /\ cachedToken = "unread"
  /\ cachedUsage = <<>>
  /\ fetchInProgress = 0
  /\ fetches = <<>>
  /\ callers = [ c \in 1..MaxCallers |-> NotCalled ]

\* no rerun command was printed
CliIdle == rerunCommand = <<>> /\ rerunConfig = <<>>

\* no sanitizer is driven on its own
SanitizerOff ==
  /\ mdText = <<>>
  /\ mdFed = <<>>
  /\ streamer = MdFresh
  /\ sanitized = <<>>
  /\ calls = 0
  /\ resetAt = <<>>
  /\ lastFlush = <<>>
  /\ sanPc = "idle"

SanitizerIdle == SanitizerOff /\ CliIdle /\ Spawned /\ UsageIdle

\* ------------------------------------------------------------------------
\* runLoop: actions (one per stretch of code between two awaits)
\* ------------------------------------------------------------------------

LoopConfigs ==
  [ iterations     : IterationChoices,
    stopString     : StopStrings,
    continueString : ContinueStrings,
    delaySeconds   : DelayChoices,
    logFile        : LogFiles,
    maxLogLines    : MaxLogLinesChoices,
    verbose        : { FALSE } ]

\* runLoop up to `await footer.activate()`, for a configuration of cfgs
LoopStart(cfgs) ==
  /\ config \in cfgs
  /\ i = 0
  /\ loopPc = "activating"
  /\ cumulative = [ completedIterations |-> 0, totalDurationMs |-> 0, totalCostUsd |-> 0,
                    totalInputTokens |-> 0, totalOutputTokens |-> 0 ]
  /\ stopReason = NoReason
  /\ result = <<>>
  /\ produced = <<>>
  /\ summaries = <<>>
  /\ footerActive = FALSE
  /\ handlers = TRUE
  /\ sleeps = <<>>
  /\ started = <<>>
  /\ logWriter = NewLogWriter(config.logFile)

LoopInit == LoopStart(LoopConfigs) /\ StreamIdle /\ SanitizerIdle

\* the code after the for loop, up to `await footer.closeLog()`
AfterLoop(cum, reason) ==
  /\ stopReason' = FinalReason(config, reason)
  /\ footerActive' = FALSE
  /\ handlers' = FALSE
  /\ summaries' = Append(summaries, PrintFinalSummary(cum, config, FinalReason(config, reason)))
  /\ loopPc' = "closing"

\* the loop test `i <= maxIterations` with counter n, then the iteration
\* header and the call of runClaudeIteration, or the exit from the loop
LoopTop(n) ==
  /\ i' = n
  /\ IF WithinBudget(config, n)
       THEN /\ started' = Append(started, n)
            /\ loopPc' = "running"
            /\ UNCHANGED << stopReason, summaries, footerActive, handlers >>
       ELSE /\ AfterLoop(cumulative, stopReason)
            /\ UNCHANGED started

\* `await footer.activate()` returns: the loop is entered with i = 1
Activated ==
  /\ loopPc = "activating"
  /\ UNCHANGED << streamVars, sanVars, cliVars, procVars, usageVars >>
  /\ footerActive' = TRUE
  /\ i' = 1
  /\ started' = Append(started, 1)
  /\ loopPc' = "running"
  /\ UNCHANGED << config, cumulative, stopReason, result, produced, summaries,
                  handlers, sleeps, logWriter >>

\* runClaudeIteration rejects: the catch block sets the fatal reason and breaks
IterationThrows ==
  /\ loopPc = "running"
  /\ UNCHANGED << streamVars, sanVars, cliVars, procVars, usageVars >>
  /\ AfterLoop(cumulative, Reason("fatal error on iteration", <<>>, <<>>, 0, i))
  /\ UNCHANGED << config, i, cumulative, result, produced, sleeps, started, logWriter >>

\* runClaudeIteration resolves with an IterationResult: cumulative stats,
\* iteration summary, sentinel and exit-code checks, then either the break
\* (and the code after the loop) or `await footer.flushAndTrimLog()`
IterationReturns(finalText, exitCode, m) ==
  /\ loopPc = "running"
  /\ UNCHANGED << streamVars, sanVars, cliVars, procVars, usageVars >>
  /\ LET r   == MakeResult(config, i, exitCode, m.durationMs, m.tokenUsage, m.costUsd,
                           <<>>, finalText)
         cum == UpdateCumulative(cumulative, i, r)
         why == StopDecision(config, r, i)
     IN /\ result' = << r >>
        /\ cumulative' = cum
        /\ produced' = Append(produced, m)
        /\ IF why # NoReason
             THEN AfterLoop(cum, why)
             ELSE /\ loopPc' = "trimming"
                  /\ UNCHANGED << stopReason, summaries, footerActive, handlers >>
  /\ UNCHANGED << config, i, sleeps, started, logWriter >>

\* flushAndTrimLog returns: the delay between iterations, or the next turn
\* of the loop
TrimDone ==
  /\ loopPc = "trimming"
  /\ UNCHANGED << streamVars, sanVars, cliVars, procVars, usageVars >>
  /\ i < MaxLoop \/ ~WithinBudget(config, i + 1)
  /\ IF config.delaySeconds > 0 /\ BelowBudget(config, i)
       THEN /\ sleeps' = Append(sleeps, i)
            /\ loopPc' = "sleeping"
            /\ UNCHANGED << i, stopReason, summaries, footerActive, handlers, started >>
       ELSE /\ LoopTop(i + 1)
            /\ UNCHANGED sleeps
  /\ UNCHANGED << config, cumulative, result, produced, logWriter >>

\* Bun.sleep returns: the next turn of the loop
SleepDone ==
  /\ loopPc = "sleeping"
  /\ UNCHANGED << streamVars, sanVars, cliVars, procVars, usageVars >>
  /\ LoopTop(i + 1)
  /\ UNCHANGED << config, cumulative, result, produced, sleeps, logWriter >>

\* `await footer.closeLog()` returns and runLoop ends
LogClosed ==
  /\ loopPc = "closing"
  /\ UNCHANGED << streamVars, sanVars, cliVars, procVars, usageVars >>
  /\ logWriter' = CloseLog(logWriter)
  /\ loopPc' = "done"
  /\ UNCHANGED << config, i, cumulative, stopReason, result, produced, summaries,
                  footerActive, handlers, sleeps, started >>

\* SIGINT or SIGTERM while the listeners are registered: cleanup()
Interrupt ==
  /\ handlers
  /\ UNCHANGED << streamVars, sanVars, cliVars, procVars, usageVars >>
  /\ loopPc \notin { "done", "exited" }
  /\ footerActive' = FALSE
  /\ summaries' = Append(summaries,
       PrintFinalSummary(cumulative, config, Reason("user interrupted", <<>>, <<>>, 0, 0)))
  /\ logWriter' \in CloseLogNotAwaited(logWriter)
  /\ loopPc' = "exited"
  /\ UNCHANGED << config, i, cumulative, stopReason, result, produced, handlers,
                  sleeps, started >>

\* uncaughtException or unhandledRejection while the listeners are
\* registered: crashCleanup(err)
Crash ==
  /\ handlers
  /\ UNCHANGED << streamVars, sanVars, cliVars, procVars, usageVars >>
  /\ loopPc \notin { "done", "exited" }
  /\ footerActive' = FALSE
  /\ summaries' = Append(summaries,
       PrintFinalSummary(cumulative, config, Reason("fatal error", <<>>, <<>>, 0, 0)))
  /\ logWriter' \in CloseLogNotAwaited(logWriter)
  /\ loopPc' = "exited"
  /\ UNCHANGED << config, i, cumulative, stopReason, result, produced, handlers,
                  sleeps, started >>

\* `await footer.flushAndTrimLog()` rejects (reading or rewriting the log
\* file fails): the rejection leaves runLoop and main, main().catch prints
\* it and calls process.exit(1), and the "exit" listener deactivates the
\* footer
TrimFails ==
  /\ loopPc = "trimming"
  /\ UNCHANGED << streamVars, sanVars, cliVars, procVars, usageVars >>
  /\ config.logFile # <<>>
  /\ config.maxLogLines > 0
  /\ footerActive' = FALSE
  /\ loopPc' = "exited"
  /\ UNCHANGED << config, i, cumulative, stopReason, result, produced, summaries,
                  handlers, sleeps, started, logWriter >>

LoopNext ==
  \/ Activated
  \/ IterationThrows
  \/ \E t \in FinalTexts, c \in ExitCodes, m \in Metrics : IterationReturns(t, c, m)
  \/ TrimDone
  \/ SleepDone
  \/ LogClosed
  \/ Interrupt
  \/ Crash
  \/ TrimFails

LoopSpec == LoopInit /\ [][LoopNext]_vars

\* ------------------------------------------------------------------------
\* runClaudeIteration: inputs
\* ------------------------------------------------------------------------

StartEvents ==
  { BlockStart(0, [ type |-> "tool_use", name |-> "Read" ]),
    BlockStart(0, [ type |-> "text" ]),
    BlockStart(0, [ type |-> "thinking" ]),
    BlockStart(1, [ type |-> "tool_result" ]) }

DeltaEvents ==
  { BlockDelta(0, TextDelta(<< Backtick, "a" >>)),
    BlockDelta(1, TextDelta(<< "D" >>)),
    BlockDelta(0, InputJsonDelta(<< "j" >>)),
    BlockDelta(0, ThinkingDelta(<< "t" >>)) }

StopEvents == { BlockStop(0), BlockStop(1) }

\* consolidated messages: a tool invocation followed by a text (with an
\* injected reminder), and a single text
AssistantEvents ==
  { [ type |-> "assistant",
      message |-> [ content |-> << ToolUseBlock("Read", << "j" >>),
                                   TextBlock(<< ReminderOpen, "r", ReminderClose, "D" >>) >>,
                    usage |-> [ input_tokens |-> 1, output_tokens |-> 1 ] ] ],
    [ type |-> "assistant",
      message |-> [ content |-> << TextBlock(<< Backtick, "a" >>) >> ] ] }

ResultEvents ==
  { [ type |-> "result",
      usage |-> [ input_tokens |-> 2, output_tokens |-> 3, cache_read_input_tokens |-> 1 ],
      total_cost_usd |-> 5 ],
    [ type |-> "result" ] }

OtherEvents ==
  { [ type |-> "message_start" ],
    [ type |-> "user",
      message |-> [ content |-> << ToolResultBlock(<< "o" >>) >> ] ],
    [ type |-> "system", subtype |-> "init", model |-> "m",
      mcp_servers |-> << [ name |-> "s", status |-> "connected" ] >> ],
    [ type |-> "future_event" ],
    Envelope(BlockDelta(1, TextDelta(<< "D" >>))) }

Events ==
  StartEvents \cup DeltaEvents \cup StopEvents \cup AssistantEvents
    \cup ResultEvents \cup OtherEvents

\* events whose JSON text the modelled reads may cut in two or leave
\* without its newline
SplitEvents == { e \in ResultEvents : Has(e, "usage") }

\* what one reader.read() can return
Chunks ==
  { JsonText(e) \o << NL >> : e \in Events }
    \cup { << JsonText(e)[1] >> : e \in SplitEvents }
    \cup { << JsonText(e)[2], NL >> : e \in SplitEvents }
    \cup { JsonText(e) : e \in SplitEvents }
    \cup { << Ch("x") >>, << Ch("x"), NL >>, << Ch(" "), NL >> }
    \cup { JsonText(BlockStart(0, [ type |-> "text" ])) \o << NL >>
             \o JsonText(BlockDelta(0, TextDelta(<< Backtick, "a" >>))) \o << NL >> }

StderrTexts == { <<>>, << "e" >> }

\* exit codes of the process in the runs of one iteration
RunExitCodes == { 0, 1 }

\* ------------------------------------------------------------------------
\* runClaudeIteration: actions
\* ------------------------------------------------------------------------

\* `await Bun.file(debugFile).exists() && Bun.$`rm -f ...`.quiet()` where the
\* subprocess has or has not written the file: only exists() is awaited; the
\* shell command is an operand of && that nothing awaits, so when control
\* goes on the removal has either run or not
CleanUpDebugFile(exists) == IF exists THEN { "present", "absent" } ELSE { "absent" }

\* the processing state as one record, and its write-back
Run ==
  [ blocks             |-> blocks,
    thinkingStarted    |-> thinkingStarted,
    hasStreamedContent |-> hasStreamedContent,
    md                 |-> md,
    lastTextBlock      |-> lastTextBlock,
    output             |-> output,
    tokenUsage         |-> tokenUsage,
    costUsd            |-> costUsd,
    liveStats          |-> liveStats,
    display            |-> display,
    turn               |-> turn,
    streamed           |-> streamed,
    described          |-> described,
    dispatched         |-> dispatched ]

Commit(R) ==
  /\ blocks' = R.blocks
  /\ thinkingStarted' = R.thinkingStarted
  /\ hasStreamedContent' = R.hasStreamedContent
  /\ md' = R.md
  /\ lastTextBlock' = R.lastTextBlock
  /\ output' = R.output
  /\ tokenUsage' = R.tokenUsage
  /\ costUsd' = R.costUsd
  /\ liveStats' = R.liveStats
  /\ display' = R.display
  /\ turn' = R.turn
  /\ streamed' = R.streamed
  /\ described' = R.described
  /\ dispatched' = R.dispatched

\* an iteration of a run with both sentinels configured, in progress
FirstIteration ==
  /\ config \in [ iterations : { 1 }, stopString : { << "D" >> }, continueString : { << "a", "D" >> },
                   delaySeconds : { 0 }, logFile : { <<>> }, maxLogLines : { 0 },
                   verbose : { FALSE } ]
  /\ i = 1
  /\ loopPc = "running"
  /\ cumulative = [ completedIterations |-> 0, totalDurationMs |-> 0, totalCostUsd |-> 0,
                    totalInputTokens |-> 0, totalOutputTokens |-> 0 ]
  /\ stopReason = NoReason
  /\ result = <<>>
  /\ produced = <<>>
  /\ summaries = <<>>
  /\ footerActive = TRUE
  /\ handlers = TRUE
  /\ sleeps = <<>>
  /\ started = << 1 >>
  /\ logWriter = NewLogWriter(config.logFile)

StreamInit == FirstIteration /\ StreamIdle /\ SanitizerIdle

\* reader.read() returns a chunk: it is appended to the buffer and every
\* complete line of the buffer is processed
ReadChunk(chunk) ==
  /\ pc = "reading"
  /\ reads < MaxReads
  /\ LET P == ProcessBuffer(Run, buffer \o chunk, config.verbose)
     IN /\ buffer' = P.buffer
        /\ Commit(P.run)
  /\ reads' = reads + 1
  /\ UNCHANGED << pc, iterResult, debugFile, loopVars, sanVars, cliVars, procVars, usageVars >>

\* reader.read() returns done: the rest of the buffer is handled
ReadDone ==
  /\ pc = "reading"
  /\ Commit(ProcessRemainder(Run, buffer))
  /\ pc' = "stderr"
  /\ UNCHANGED << reads, buffer, iterResult, debugFile, loopVars, sanVars, cliVars, procVars, usageVars >>

\* reader.read() rejects: the error is shown, then the rest of the buffer
\* is handled
ReadFails ==
  /\ pc = "reading"
  /\ Commit(ProcessRemainder(Writeln(Run, "read_error", -1,
                                     Styled("red", << "Error reading Claude output" >>)),
                             buffer))
  /\ pc' = "stderr"
  /\ UNCHANGED << reads, buffer, iterResult, debugFile, loopVars, sanVars, cliVars, procVars, usageVars >>

\* the text of stderr has been read to its end
ReadStderr(text) ==
  /\ pc = "stderr"
  /\ Commit(IF Trim(text) # <<>>
              THEN AppendOutput(Writeln(Run, "stderr", -1, Styled("yellow", text)), text)
              ELSE Run)
  /\ pc' = "waiting"
  /\ UNCHANGED << reads, buffer, iterResult, debugFile, loopVars, sanVars, cliVars, procVars, usageVars >>

\* proc.exited resolves: the IterationResult is assembled and returned
Exited(exitCode, durationMs, logged) ==
  /\ pc = "waiting"
  /\ debugFile' \in CleanUpDebugFile(logged)
  /\ iterResult' = << MakeResult(config, i, exitCode, durationMs, tokenUsage, costUsd,
                                 output, lastTextBlock) >>
  /\ pc' = "done"
  /\ UNCHANGED << reads, buffer, runVars, loopVars, sanVars, cliVars, procVars, usageVars >>

StreamNext ==
  \/ \E chunk \in Chunks : ReadChunk(chunk)
  \/ ReadDone
  \/ ReadFails
  \/ \E text \in StderrTexts : ReadStderr(text)
  \/ \E c \in RunExitCodes, logged \in BOOLEAN : Exited(c, 1, logged)

StreamSpec == StreamInit /\ [][StreamNext]_vars

\* ------------------------------------------------------------------------
\* runLoop with runClaudeIteration in it: the loop calls the runner, the
\* runner spawns the subprocess, drains it and returns, the loop goes on
\* ------------------------------------------------------------------------

SeqConfigs ==
  [ iterations     : { 0, 2 },
    stopString     : { << "D" >> },
    continueString : { <<>> },
    delaySeconds   : DelayChoices,
    logFile        : LogFiles,
    maxLogLines    : { 1 },
    verbose        : BOOLEAN ]

SeqChunks ==
  { JsonText(e) \o << NL >> :
      e \in { r \in ResultEvents : Has(r, "usage") } \cup { BlockDelta(1, TextDelta(<< "D" >>)) } }

\* mutant: the loop does not wait for the promise of runClaudeIteration
RunnerSettled_NotAwaited == TRUE

\* the previous call of runClaudeIteration, if any, has settled: the loop
\* awaits it before it goes on
RunnerSettled == pc \in { "unspawned", "done" }

\* runLoop has called runClaudeIteration(config, i, footer) and the runner
\* has not spawned the subprocess of iteration i yet
CallPending ==
  /\ loopPc = "running"
  /\ RunnerSettled
  /\ IF iterResult = <<>> THEN TRUE ELSE iterResult[1].iteration # i

SeqInit ==
  /\ LoopStart(SeqConfigs)
  /\ pc = "unspawned"
  /\ reads = 0
  /\ buffer = <<>>
  /\ iterResult = <<>>
  /\ debugFile = "absent"
  /\ blocks = RunFresh.blocks
  /\ thinkingStarted = RunFresh.thinkingStarted
  /\ hasStreamedContent = RunFresh.hasStreamedContent
  /\ md = RunFresh.md
  /\ lastTextBlock = RunFresh.lastTextBlock
  /\ output = RunFresh.output
  /\ tokenUsage = RunFresh.tokenUsage
  /\ costUsd = RunFresh.costUsd
  /\ liveStats = RunFresh.liveStats
  /\ display = RunFresh.display
  /\ turn = RunFresh.turn
  /\ streamed = RunFresh.streamed
  /\ described = RunFresh.described
  /\ dispatched = RunFresh.dispatched
  /\ SanitizerIdle

\* Bun.spawn(["claude", ...]) and the fresh processing state of the iteration
Spawn ==
  /\ CallPending
  /\ pc' = "reading"
  /\ reads' = 0
  /\ buffer' = <<>>
  /\ iterResult' = <<>>
  /\ debugFile' = "absent"
  /\ Commit(RunFresh)
  /\ UNCHANGED << loopVars, sanVars, cliVars, procVars, usageVars >>

\* reading the prompt file or spawning fails: the runner rejects
SeqThrows == CallPending /\ IterationThrows

SeqReadChunk(chunk) == loopPc = "running" /\ ReadChunk(chunk)

SeqReadDone == loopPc = "running" /\ ReadDone

SeqReadFails == loopPc = "running" /\ ReadFails

SeqReadStderr(text) == loopPc = "running" /\ ReadStderr(text)

SeqExited(exitCode, logged) == loopPc = "running" /\ Exited(exitCode, 1, logged)

\* the awaited call resolves with the runner's result
SeqReturns ==
  /\ pc = "done"
  /\ iterResult # <<>>
  /\ iterResult[1].iteration = i
  /\ IterationReturns(iterResult[1].finalResponse, iterResult[1].exitCode,
                      [ durationMs |-> iterResult[1].durationMs,
                        costUsd    |-> iterResult[1].costUsd,
                        tokenUsage |-> iterResult[1].tokenUsage ])

SeqNext ==
  \/ Activated
  \/ Spawn
  \/ SeqThrows
  \/ \E chunk \in SeqChunks : SeqReadChunk(chunk)
  \/ SeqReadDone
  \/ SeqReadFails
  \/ \E text \in StderrTexts : SeqReadStderr(text)
  \/ \E c \in RunExitCodes, logged \in BOOLEAN : SeqExited(c, logged)
  \/ SeqReturns
  \/ TrimDone
  \/ SleepDone
  \/ LogClosed
  \/ Interrupt
  \/ Crash
  \/ TrimFails

SeqSpec == SeqInit /\ [][SeqNext]_vars

\* ------------------------------------------------------------------------
\* The MarkdownStreamer driven on its own: a caller streams a text through
\* feed() in fragments of its choice, may call reset() once on the way, and
\* calls flush() at the end of the text
\* ------------------------------------------------------------------------

\* the characters the sanitizer tells apart, and a plain one
MdChars == { Backtick, "*", "#", " ", "\n", "a" }

\* every text of at most MaxText characters
FreeTexts == UNION { [ 1..n -> MdChars ] : n \in 0..MaxText }

Fence3 == << Backtick, Backtick, Backtick >>

\* lines of a code block: none of them is a closing fence
CodeLines == { << "a" >>, <<>>, << "*", "*" >> }

\* a fenced code block: the opening fence with its language tag, the
\* interior lines, the closing fence (of three or four backticks, with or
\* without a blank after it, with or without the end of line), in a text
\* that may hold a line before it
FencedBlocks ==
  [ before : { <<>>, << "a", "\n" >> },
    tag    : { <<>>, << "a" >> },
    lines  : UNION { [ 1..n -> CodeLines ] : n \in 0..MaxFenceLines },
    close  : { Fence3 \o << "\n" >>, Fence3 \o << Backtick, " ", "\n" >>, Fence3 } ]

RECURSIVE JoinLines(_)
JoinLines(lines) ==
  IF lines = <<>> THEN <<>> ELSE lines[1] \o << "\n" >> \o JoinLines(Tail(lines))

FencedText(f) ==
  f.before \o Fence3 \o f.tag \o << "\n" >> \o JoinLines(f.lines) \o f.close

SanitizerTexts == FreeTexts \cup { FencedText(f) : f \in FencedBlocks }

\* the part of the text not given to feed() yet
Rest == SubSeq(mdText, Len(mdFed) + 1, Len(mdText))

\* new MarkdownStreamer() in a process that runs nothing else
SanitizerInit ==
  /\ LoopStart({ [ iterations |-> 1, stopString |-> <<>>, continueString |-> <<>>,
                   delaySeconds |-> 0, logFile |-> <<>>, maxLogLines |-> 0,
                   verbose |-> FALSE ] })
  /\ StreamIdle
  /\ mdText \in SanitizerTexts
  /\ mdFed = <<>>
  /\ streamer = MdFresh
  /\ sanitized = <<>>
  /\ calls = 0
  /\ resetAt = <<>>
  /\ lastFlush = <<>>
  /\ sanPc = "feeding"
  /\ CliIdle
  /\ Spawned
  /\ UsageIdle

\* feed(fragment) with the next n characters of the text
Feed(n) ==
  /\ sanPc = "feeding"
  /\ n \in 1..Len(Rest)
  /\ LET r == MdFeed(streamer, SubSeq(Rest, 1, n))
     IN /\ streamer' = r.md
        /\ sanitized' = sanitized \o r.out
  /\ mdFed' = mdFed \o SubSeq(Rest, 1, n)
  /\ calls' = calls + 1
  /\ UNCHANGED << mdText, resetAt, lastFlush, sanPc, loopVars, streamVars, cliVars, procVars, usageVars >>

\* reset(): returns nothing
Reset ==
  /\ sanPc = "feeding"
  /\ resetAt = <<>>
  /\ mdFed # <<>>
  /\ streamer' = MdReset(streamer)
  /\ resetAt' = << [ fed |-> mdFed, out |-> sanitized, buffered |-> MdFlush(streamer).out ] >>
  /\ UNCHANGED << mdText, mdFed, sanitized, calls, lastFlush, sanPc, loopVars, streamVars, cliVars, procVars, usageVars >>

\* flush() at the end of the text
Flush ==
  /\ sanPc = "feeding"
  /\ Rest = <<>>
  /\ LET r == MdFlush(streamer)
     IN /\ streamer' = r.md
        /\ sanitized' = sanitized \o r.out
        /\ lastFlush' = << [ state |-> streamer.state, out |-> r.out ] >>
  /\ sanPc' = "flushed"
  /\ UNCHANGED << mdText, mdFed, calls, resetAt, loopVars, streamVars, cliVars, procVars, usageVars >>

SanitizerNext ==
  \/ \E n \in 1..(MaxText + 1) : Feed(n)
  \/ Reset
  \/ Flush

SanitizerSpec == SanitizerInit /\ [][SanitizerNext]_vars

\* ------------------------------------------------------------------------
\* The rerun command: printFinalSummary prints buildRerunCommand(config); a
\* new process started with that command line builds its configuration with
\* buildConfigFromOpts (--no-interactive).  The options for MCP servers, IDE
\* and Chrome are not part of the modelled configuration.
\* ------------------------------------------------------------------------

Quote == "QUOTE"

\* JSON.stringify of a string without characters that need escaping
JsonStringify(s) == << Quote >> \o s \o << Quote >>

Digit(d) == << "0", "1", "2", "3", "4", "5", "6", "7", "8", "9" >>[d + 1]

\* String(n) for 0 <= n < 100
NumberToString(n) ==
  IF n < 10 THEN << Digit(n) >> ELSE << Digit(n \div 10), Digit(n % 10) >>

IsDigit(c) == \E d \in 0..9 : Digit(d) = c

DigitValue(c) == CHOOSE d \in 0..9 : Digit(d) = c

\* parseInt(s, 10) and parseFloat(s) on the leading digits; <<>> is NaN
RECURSIVE ParseDigits(_, _, _)
ParseDigits(s, seen, acc) ==
  IF s # <<>> /\ IsDigit(s[1])
    THEN ParseDigits(Tail(s), TRUE, 10 * acc + DigitValue(s[1]))
    ELSE IF seen THEN << acc >> ELSE <<>>

ParseNumber(s) == ParseDigits(s, FALSE, 0)

\* parts.join(" ")
RECURSIVE JoinWords(_)
JoinWords(parts) ==
  IF parts = <<>> THEN <<>>
  ELSE IF Len(parts) = 1 THEN parts[1]
  ELSE parts[1] \o << " " >> \o JoinWords(Tail(parts))

\* buildRerunCommand(config)
BuildRerunCommand(cfg) ==
  JoinWords(
    << << "./cig-loop" >>, << "-p" >>, JsonStringify(cfg.promptPath) >>
    \o (IF cfg.model # <<>> THEN << << "-m" >>, cfg.model >> ELSE <<>>)
    \o (IF cfg.stopString # <<>>
          THEN << << "--stop-string" >>, JsonStringify(cfg.stopString) >> ELSE <<>>)
    \o (IF cfg.continueString # <<>>
          THEN << << "--continue-string" >>, JsonStringify(cfg.continueString) >> ELSE <<>>)
    \o (IF cfg.logFile # <<>>
          THEN << << "--log-file" >>, JsonStringify(cfg.logFile[1]) >> ELSE <<>>)
    \o (IF cfg.maxLogLines > 0
          THEN << << "--max-log-lines" >>, NumberToString(cfg.maxLogLines) >> ELSE <<>>)
    \o (IF cfg.verbose THEN << << "-v" >> >> ELSE <<>>)
    \o (IF cfg.delaySeconds > 0
          THEN << << "-d" >>, NumberToString(cfg.delaySeconds) >> ELSE <<>>)
    \o << << "--no-interactive" >>, << "-i" >>, NumberToString(cfg.iterations) >> )

\* the shell splits the command line into words at blanks outside double
\* quotes and removes the quotes
RECURSIVE ShellWords(_, _, _, _)
ShellWords(s, word, quoted, inWord) ==
  IF s = <<>> THEN (IF inWord THEN << word >> ELSE <<>>)
  ELSE IF s[1] = Quote THEN ShellWords(Tail(s), word, ~quoted, TRUE)
  ELSE IF s[1] = " " /\ ~quoted
    THEN (IF inWord THEN << word >> ELSE <<>>) \o ShellWords(Tail(s), <<>>, FALSE, FALSE)
  ELSE ShellWords(Tail(s), Append(word, s[1]), quoted, TRUE)

\* the options commander declares with an argument, by the key of opts
ValueOptions ==
  [ k \in { "-p", "-i", "-m", "--stop-string", "--continue-string", "--log-file",
            "--max-log-lines", "-d" } |->
      CASE k = "-p" -> "prompt"
        [] k = "-i" -> "iterations"
        [] k = "-m" -> "model"
        [] k = "--stop-string" -> "stopString"
        [] k = "--continue-string" -> "continueString"
        [] k = "--log-file" -> "logFile"
        [] k = "--max-log-lines" -> "maxLogLines"
        [] k = "-d" -> "delay" ]

\* the defaults of the option declarations; <<>> where there is none
DefaultOpts ==
  [ prompt |-> << << ".", "/", "PROMPT.md" >> >>, iterations |-> << << "1", "0" >> >>,
    model |-> <<>>, stopString |-> <<>>, continueString |-> <<>>, logFile |-> <<>>,
    maxLogLines |-> << << "0" >> >>, verbose |-> FALSE, delay |-> << << "0" >> >>,
    interactive |-> TRUE ]

\* program.parse(argv).opts() for the words after the program name
RECURSIVE ParseOpts(_, _)
ParseOpts(words, opts) ==
  IF words = <<>> THEN opts
  ELSE LET w == words[1]
       IN IF Len(w) = 1 /\ w[1] \in DOMAIN ValueOptions /\ Len(words) >= 2
            THEN ParseOpts(Tail(Tail(words)),
                           [opts EXCEPT ![ValueOptions[w[1]]] = << words[2] >>])
          ELSE IF w = << "-v" >> THEN ParseOpts(Tail(words), [opts EXCEPT !.verbose = TRUE])
          ELSE IF w = << "--no-interactive" >>
            THEN ParseOpts(Tail(words), [opts EXCEPT !.interactive = FALSE])
          ELSE ParseOpts(Tail(words), opts)

\* x || d on a parsed number: NaN and 0 give d
NumberOr(parsed, d) == IF parsed = <<>> \/ parsed = << 0 >> THEN d ELSE parsed[1]

\* opts.x || undefined on an optional string
StringOrUndefined(opt) == IF opt = <<>> THEN <<>> ELSE opt[1]

\* the default of --iterations when the option does not parse to a number
\* other than zero
DefaultIterations == 10

\* buildConfigFromOpts()
BuildConfigFromOpts(opts) ==
  [ promptPath     |-> IF opts.prompt = <<>> \/ opts.prompt = << <<>> >>
                         THEN << ".", "/", "PROMPT.md" >> ELSE opts.prompt[1],
    iterations     |-> NumberOr(ParseNumber(opts.iterations[1]), DefaultIterations),
    model          |-> StringOrUndefined(opts.model),
    stopString     |-> StringOrUndefined(opts.stopString),
    continueString |-> StringOrUndefined(opts.continueString),
    logFile        |-> IF opts.logFile = <<>> \/ opts.logFile = << <<>> >>
                         THEN <<>> ELSE opts.logFile,
    maxLogLines    |-> NumberOr(ParseNumber(opts.maxLogLines[1]), 0),
    verbose        |-> opts.verbose,
    delaySeconds   |-> NumberOr(ParseNumber(opts.delay[1]), 0) ]

\* the effective configurations of a run: from the command line or from the
\* interactive prompts, which accept 0 iterations
RerunConfigs ==
  [ promptPath     : { << "P" >>, << "my", " ", "P" >> },
    iterations     : { 0, 1, 10, 12 },
    model          : { <<>>, << "m" >> },
    stopString     : { <<>>, << "D", " ", "N" >> },
    continueString : ContinueStrings,
    logFile        : LogFiles,
    maxLogLines    : MaxLogLinesChoices,
    verbose        : BOOLEAN,
    delaySeconds   : DelayChoices ]

\* a process whose configuration is settled, before runLoop
RerunInit ==
  /\ config \in RerunConfigs
  /\ i = 0
  /\ loopPc = "configured"
  /\ cumulative = [ completedIterations |-> 0, totalDurationMs |-> 0, totalCostUsd |-> 0,
                    totalInputTokens |-> 0, totalOutputTokens |-> 0 ]
  /\ stopReason = NoReason
  /\ result = <<>>
  /\ produced = <<>>
  /\ summaries = <<>>
  /\ footerActive = FALSE
  /\ handlers = FALSE
  /\ sleeps = <<>>
  /\ started = <<>>
  /\ logWriter = "none"
  /\ StreamIdle
  /\ SanitizerIdle

\* the "Rerun:" line of printFinalSummary
PrintRerun ==
  /\ rerunCommand = <<>>
  /\ rerunCommand' = << BuildRerunCommand(config) >>
  /\ UNCHANGED << rerunConfig, loopVars, streamVars, sanVars, procVars, usageVars >>

\* the printed command is run: gatherConfig of the new process
Rerun ==
  /\ rerunCommand # <<>>
  /\ rerunConfig = <<>>
  /\ rerunConfig' =
       << BuildConfigFromOpts(ParseOpts(Tail(ShellWords(rerunCommand[1], <<>>, FALSE, FALSE)),
                                        DefaultOpts)) >>
  /\ UNCHANGED << rerunCommand, loopVars, streamVars, sanVars, procVars, usageVars >>

RerunNext == PrintRerun \/ Rerun

RerunSpec == RerunInit /\ [][RerunNext]_vars

\* ------------------------------------------------------------------------
\* runClaudeIteration with its subprocess: the subprocess writes to stdout
\* and stderr in any interleaving and then closes both and exits.  Bun.spawn
\* is called without the `lazy` option (claude.ts:91-96), so the runtime
\* reads both pipes as data arrives and keeps it until the streams are read:
\* a write of the subprocess never waits for the runner.  The runner reads
\* stdout to its end, then stderr to its end, then awaits the exit.
\* ------------------------------------------------------------------------

\* cap on the number of writes to stderr
MaxStderr == 2

\* what one write to stdout holds: a whole event line, or part of a line
DrainChunks == { JsonText(BlockDelta(1, TextDelta(<< "D" >>))) \o << NL >>, << Ch("x") >> }

\* the subprocess writes a chunk to stdout
ProcWritesStdout(chunk) ==
  /\ procState = "running"
  /\ reads + Len(outBuf) < MaxReads
  /\ outBuf' = Append(outBuf, chunk)
  /\ UNCHANGED << procState, errBuf, decoder, stdoutRead, loopVars, streamVars, sanVars, cliVars, usageVars >>

\* the subprocess writes to stderr
ProcWritesStderr ==
  /\ procState = "running"
  /\ Len(errBuf) < MaxStderr
  /\ errBuf' = Append(errBuf, "e")
  /\ UNCHANGED << procState, outBuf, decoder, stdoutRead, loopVars, streamVars, sanVars, cliVars, usageVars >>

\* the subprocess closes stdout and stderr and exits
ProcExits ==
  /\ procState = "running"
  /\ procState' = "exited"
  /\ UNCHANGED << outBuf, errBuf, decoder, stdoutRead, loopVars, streamVars, sanVars, cliVars, usageVars >>

\* reader.read() resolves with the next chunk
DrainReadChunk ==
  /\ pc = "reading"
  /\ outBuf # <<>>
  /\ \E P \in { ProcessBuffer(Run, buffer \o Head(outBuf), config.verbose) } :
       /\ buffer' = P.buffer
       /\ Commit(P.run)
  /\ reads' = reads + 1
  /\ outBuf' = Tail(outBuf)
  /\ stdoutRead' = stdoutRead \o Head(outBuf)
  /\ UNCHANGED << pc, iterResult, debugFile, procState, errBuf, decoder, loopVars, sanVars, cliVars, usageVars >>

\* mutant: the text of stderr resolves only if something was written to it
StderrClosed_NeedsText == procState = "exited" /\ errBuf # <<>>

\* `await new Response(proc.stderr).text()` resolves when stderr is closed
StderrClosed == procState = "exited"

\* reader.read() resolves with done: stdout is closed and was read to its end
DrainReadDone == procState = "exited" /\ outBuf = <<>> /\ ReadDone

DrainReadStderr == StderrClosed /\ ReadStderr(errBuf)

\* `await proc.exited` resolves
DrainExited(exitCode, logged) == procState = "exited" /\ Exited(exitCode, 1, logged)

DrainNext ==
  \/ \E chunk \in DrainChunks : ProcWritesStdout(chunk)
  \/ ProcWritesStderr
  \/ ProcExits
  \/ DrainReadChunk
  \/ DrainReadDone
  \/ DrainReadStderr
  \/ \E c \in RunExitCodes, logged \in BOOLEAN : DrainExited(c, logged)

\* every await of the runner resolves once what it waits for has happened
DrainSpec ==
  /\ StreamInit
  /\ [][DrainNext]_vars
  /\ WF_vars(DrainReadChunk)
  /\ WF_vars(DrainReadDone)
  /\ WF_vars(DrainReadStderr)
  /\ WF_vars(\E c \in RunExitCodes, logged \in BOOLEAN : DrainExited(c, logged))

\* ------------------------------------------------------------------------
\* The read loop over one stdout stream: the subprocess has written the
\* whole stream, and every reader.read() returns some non-empty prefix of
\* what is left in the pipe.  The bytes go through the TextDecoder.
\* ------------------------------------------------------------------------

\* number of terminated lines in a stream
MaxFrameLines == 2

\* the two bytes of a character outside ASCII
LeadByte == [ byte |-> "C3" ]

ContinuationByte == [ byte |-> "A9" ]

TwoByteChar == Ch("U+00E9")

\* what the decoder puts in the place of a malformed sequence
ReplacementChar == Ch("U+FFFD")

\* decoder.decode(value, { stream: true }) byte by byte: a character cut by
\* the end of the chunk is kept for the next call
RECURSIVE Decode(_, _, _)
Decode(pending, bytes, acc) ==
  IF bytes = <<>> THEN [ text |-> acc, pending |-> pending ]
  ELSE IF pending # <<>>
    THEN IF Head(bytes) = ContinuationByte
           THEN Decode(<<>>, Tail(bytes), Append(acc, TwoByteChar))
           ELSE Decode(<<>>, bytes, Append(acc, ReplacementChar))
  ELSE IF Head(bytes) = LeadByte THEN Decode(<< LeadByte >>, Tail(bytes), acc)
  ELSE IF Head(bytes) = ContinuationByte
    THEN Decode(<<>>, Tail(bytes), Append(acc, ReplacementChar))
  ELSE Decode(<<>>, Tail(bytes), Append(acc, Head(bytes)))

\* mutant: every chunk is decoded on its own
TextDecode_NotStreaming(pending, bytes) ==
  LET D == Decode(<<>>, bytes, <<>>)
  IN [ text    |-> IF D.pending # <<>> THEN Append(D.text, ReplacementChar) ELSE D.text,
       pending |-> <<>> ]

\* buffer += decoder.decode(value, { stream: true })
TextDecode(pending, bytes) == Decode(pending, bytes, <<>>)

FrameLines ==
  { JsonText(BlockDelta(1, TextDelta(<< "D" >>))),
    JsonText(Envelope(BlockDelta(1, TextDelta(<< "a" >>)))),
    <<>>,
    << Ch(" ") >>,
    << Ch("x") >>,
    << LeadByte, ContinuationByte >> }

\* the streams of n terminated lines
RECURSIVE FrameTerminated(_)
FrameTerminated(n) ==
  IF n = 0 THEN { <<>> }
  ELSE { s \o line \o << NL >> : s \in FrameTerminated(n - 1), line \in FrameLines }

\* a stream: terminated lines, then possibly the beginning of another line
FrameStreams ==
  { s \o rest : s \in UNION { FrameTerminated(n) : n \in 1..MaxFrameLines },
                rest \in { <<>>, << Ch("x") >> } }

FramingInit ==
  /\ FirstIteration
  /\ StreamIdle
  /\ SanitizerOff
  /\ CliIdle
  /\ procState = "exited"
  /\ outBuf \in { << s >> : s \in FrameStreams }
  /\ errBuf = <<>>
  /\ decoder = <<>>
  /\ stdoutRead = <<>>
  /\ UsageIdle

\* the bytes left in the pipe
Pending == IF outBuf = <<>> THEN <<>> ELSE Head(outBuf)

\* reader.read() returns the first n bytes of what is left
FrameRead(n) ==
  /\ pc = "reading"
  /\ n <= Len(Pending)
  /\ \E D \in { TextDecode(decoder, SubSeq(Pending, 1, n)) } :
       /\ decoder' = D.pending
       /\ \E P \in { ProcessBuffer(Run, buffer \o D.text, config.verbose) } :
            /\ buffer' = P.buffer
            /\ Commit(P.run)
  /\ reads' = reads + 1
  /\ outBuf' = IF n = Len(Pending) THEN <<>> ELSE << SubSeq(Pending, n + 1, Len(Pending)) >>
  /\ stdoutRead' = stdoutRead \o SubSeq(Pending, 1, n)
  /\ UNCHANGED << pc, iterResult, debugFile, procState, errBuf, loopVars, sanVars, cliVars, usageVars >>

\* reader.read() returns done once the pipe is empty
FrameDone == outBuf = <<>> /\ ReadDone

FramingNext ==
  \/ \E n \in 1..(3 * MaxFrameLines + 1) : FrameRead(n)
  \/ FrameDone

FramingSpec == FramingInit /\ [][FramingNext]_vars

\* ------------------------------------------------------------------------
\* fetchUsage (src/src/usage.ts): calls arrive at any time; every await is
\* a point where other calls and the continuations of other calls run
\* ------------------------------------------------------------------------

CACHE_TTL_MS == 60000

\* number of times the clock advances
MaxTicks == 2

\* the steps of the clock: within the lifetime of the cache, and beyond it
ClockSteps == { CACHE_TTL_MS \div 2, CACHE_TTL_MS }

\* how the request to the usage endpoint ends
Responses == { "ok", "notOk", "error" }

\* cachedUsage && Date.now() - cachedUsage.fetchedAt < CACHE_TTL_MS
CacheFresh == cachedUsage # <<>> /\ clock - cachedUsage[1].fetchedAt < CACHE_TTL_MS

\* mutant: a call never sees the fetch in flight
InFlight_Ignored == FALSE

\* if (fetchInProgress)
InFlight == fetchInProgress # 0

\* fetchUsage(forceRefresh) up to its return or its await
Call(c, forceRefresh) ==
  /\ callers[c].pc = "idle"
  /\ IF ~forceRefresh /\ CacheFresh
       THEN /\ callers' = [callers EXCEPT ![c] =
                             [ pc |-> "returned", promise |-> 0, result |-> << cachedUsage >> ]]
            /\ UNCHANGED << fetchInProgress, fetches >>
     ELSE IF InFlight
       THEN /\ callers' = [callers EXCEPT ![c] =
                             [ pc |-> "joined", promise |-> fetchInProgress, result |-> <<>> ]]
            /\ UNCHANGED << fetchInProgress, fetches >>
     ELSE /\ Len(fetches) < MaxFetches
          /\ fetches' = Append(fetches, [ pc |-> "token", value |-> <<>> ])
          /\ fetchInProgress' = Len(fetches) + 1
          /\ callers' = [callers EXCEPT ![c] =
                           [ pc |-> "owner", promise |-> Len(fetches) + 1, result |-> <<>> ]]
  /\ UNCHANGED << clock, cachedToken, cachedUsage, loopVars, streamVars, sanVars, cliVars, procVars >>

\* doFetch: `await readOAuthToken()` resolves; without a token doFetch
\* returns null, with one it sends the request
ReadToken(p, found) ==
  /\ p \in 1..Len(fetches)
  /\ fetches[p].pc = "token"
  /\ cachedToken' = IF cachedToken # "unread" THEN cachedToken
                    ELSE IF found THEN "token" ELSE "none"
  /\ fetches' = [fetches EXCEPT ![p] =
                   IF cachedToken' = "token" THEN [ pc |-> "fetching", value |-> <<>> ]
                   ELSE [ pc |-> "settled", value |-> <<>> ]]
  /\ UNCHANGED << clock, cachedUsage, fetchInProgress, callers, loopVars, streamVars, sanVars, cliVars, procVars >>

\* doFetch: the request ends; a good response is parsed and cached, any
\* other outcome returns the cached data
Respond(p, response) ==
  /\ p \in 1..Len(fetches)
  /\ fetches[p].pc = "fetching"
  /\ IF response = "ok"
       THEN /\ cachedUsage' = << [ fetchedAt |-> clock ] >>
            /\ fetches' = [fetches EXCEPT ![p] = [ pc |-> "settled", value |-> cachedUsage' ]]
       ELSE /\ fetches' = [fetches EXCEPT ![p] = [ pc |-> "settled", value |-> cachedUsage ]]
            /\ UNCHANGED cachedUsage
  /\ UNCHANGED << clock, cachedToken, fetchInProgress, callers, loopVars, streamVars, sanVars, cliVars, procVars >>

\* the call that started the fetch resumes after `await fetchInProgress`:
\* finally { fetchInProgress = null }
OwnerResumes(c) ==
  /\ callers[c].pc = "owner"
  /\ fetches[callers[c].promise].pc = "settled"
  /\ fetchInProgress' = 0
  /\ callers' = [callers EXCEPT ![c].pc = "returned",
                                ![c].result = << fetches[callers[c].promise].value >>]
  /\ UNCHANGED << clock, cachedToken, cachedUsage, fetches, loopVars, streamVars, sanVars, cliVars, procVars >>

\* the promise a joining call returned resolves for its caller
JoinerResumes(c) ==
  /\ callers[c].pc = "joined"
  /\ fetches[callers[c].promise].pc = "settled"
  /\ callers' = [callers EXCEPT ![c].pc = "returned",
                                ![c].result = << fetches[callers[c].promise].value >>]
  /\ UNCHANGED << clock, cachedToken, cachedUsage, fetchInProgress, fetches, loopVars, streamVars, sanVars, cliVars, procVars >>

\* time passes
Tick(d) ==
  /\ clock + d <= MaxTicks * CACHE_TTL_MS
  /\ clock' = clock + d
  /\ UNCHANGED << cachedToken, cachedUsage, fetchInProgress, fetches, callers, loopVars, streamVars, sanVars, cliVars, procVars >>

UsageInit ==
  /\ LoopStart({ [ iterations |-> 1, stopString |-> <<>>, continueString |-> <<>>,
                   delaySeconds |-> 0, logFile |-> <<>>, maxLogLines |-> 0,
                   verbose |-> FALSE ] })
  /\ StreamIdle
  /\ SanitizerOff
  /\ CliIdle
  /\ Spawned
  /\ UsageIdle

UsageNext ==
  \/ \E c \in 1..MaxCallers, forceRefresh \in BOOLEAN : Call(c, forceRefresh)
  \/ \E p \in 1..MaxFetches, found \in BOOLEAN : ReadToken(p, found)
  \/ \E p \in 1..MaxFetches, response \in Responses : Respond(p, response)
  \/ \E c \in 1..MaxCallers : OwnerResumes(c)
  \/ \E c \in 1..MaxCallers : JoinerResumes(c)
  \/ \E d \in ClockSteps : Tick(d)

UsageSpec == UsageInit /\ [][UsageNext]_vars

\* ========================================================================
\* Claims about the loop controller (checked under LoopSpec)
\* ========================================================================

\* the IterationResult of the last iteration that returned
Last == result[1]

\* no iteration was started after the one that produced Last
NoLaterIteration == Len(started) = Last.iteration

\* runLoop left the for loop and printed its summary
LoopStopped == loopPc \in { "closing", "done" }

\* the loop is suspended on its way to the next turn, or was interrupted there
LoopGoesOn == loopPc \in { "trimming", "sleeping", "exited" } /\ stopReason = NoReason

\* the iteration in progress threw: it was started and produced no result
Thrown == Len(started) > Len(produced)

StopStringInFinalText ==
  config.stopString # <<>> /\ Includes(Last.finalResponse, config.stopString)

ContinueStringMissing ==
  config.continueString # <<>> /\ ~Includes(Last.finalResponse, config.continueString)

SignalDeath == Last.exitCode >= 128

\* C5: after an iteration the stop conditions are evaluated in the order
\* fatal error, stop-sentinel present, continue-sentinel absent, exit code
\* >= 128, and the stop reason of the run is that of the first that holds.
C5_StopOrder ==
  LoopStopped =>
    IF Thrown THEN stopReason.kind = "fatal error on iteration" /\ stopReason.iter = i
    ELSE IF result = <<>> THEN stopReason.kind = "all iterations completed"
    ELSE IF StopStringInFinalText THEN stopReason.kind = "stop-string"
    ELSE IF ContinueStringMissing THEN stopReason.kind = "continue-string"
    ELSE IF SignalDeath THEN stopReason.kind = "killed"
    ELSE stopReason.kind = "all iterations completed"

\* C5 witness: the final text holds the stop string and the exit code is 137,
\* and the run stopped with the stop-sentinel reason
C5_Witness ==
  /\ LoopStopped /\ result # <<>> /\ ~Thrown
  /\ StopStringInFinalText /\ Last.exitCode = 137
  /\ stopReason.kind = "stop-string"

\* C6: with a stop-string configured the loop goes on past an iteration whose
\* final text lacks it (no other stop condition holding, budget remaining) and
\* stops after the first iteration whose final text holds it: no later
\* iteration is started, the reason cites the stop string, and the completed
\* count is that iteration's ordinal.
C6_StopString ==
  (config.stopString # <<>> /\ result # <<>>) =>
    /\ StopStringInFinalText =>
         /\ LoopStopped
         /\ NoLaterIteration
         /\ stopReason.kind = "stop-string"
         /\ stopReason.str = config.stopString
         /\ stopReason.iter = Last.iteration
         /\ cumulative.completedIterations = Last.iteration
         /\ summaries[Len(summaries)].iterations = Last.iteration
    /\ ( /\ ~StopStringInFinalText /\ ~ContinueStringMissing /\ ~SignalDeath
         /\ NoLaterIteration /\ BelowBudget(config, Last.iteration) ) => LoopGoesOn
    /\ (LoopStopped /\ stopReason.kind = "stop-string") => StopStringInFinalText

\* C6 witness: the stop string shows up in the last iteration of the budget,
\* after iterations that lacked it
C6_Witness ==
  /\ config.iterations = MaxLoop /\ LoopStopped /\ result # <<>>
  /\ Last.iteration = MaxLoop /\ StopStringInFinalText
  /\ stopReason.kind = "stop-string" /\ cumulative.completedIterations = MaxLoop

\* C7 as stated: with a continue-string configured the loop stops after the
\* first iteration whose final text lacks it, no later iteration is started,
\* the reason cites the sentinel's absence and the completed count is that
\* iteration's ordinal.
C7_Original ==
  (result # <<>> /\ ContinueStringMissing) =>
    /\ LoopStopped
    /\ NoLaterIteration
    /\ stopReason.kind = "continue-string"
    /\ stopReason.iter = Last.iteration
    /\ cumulative.completedIterations = Last.iteration

\* C7 amended: as C7, the reason citing the sentinel's absence unless the
\* configured stop string is in that final text, in which case the reason
\* cites the stop-string match.
C7_ContinueString ==
  (result # <<>> /\ ContinueStringMissing) =>
    /\ LoopStopped
    /\ NoLaterIteration
    /\ stopReason.kind = IF StopStringInFinalText THEN "stop-string" ELSE "continue-string"
    /\ ~StopStringInFinalText => stopReason.str = config.continueString
    /\ stopReason.iter = Last.iteration
    /\ cumulative.completedIterations = Last.iteration
    /\ summaries[Len(summaries)].iterations = Last.iteration

\* C7 witness: iteration 2 lacks the continue string that iteration 1 had
C7_Witness ==
  /\ result # <<>> /\ ContinueStringMissing /\ ~StopStringInFinalText
  /\ Last.iteration = 2 /\ config.iterations = MaxLoop
  /\ LoopStopped /\ stopReason.kind = "continue-string"
  /\ cumulative.completedIterations = 2

\* C8: an exit code >= 128 with no sentinel stopping the loop first stops the
\* loop after that iteration: no later iteration is started, the reason names
\* the signal (exit code minus 128), and the completed count includes the
\* iteration.
C8_SignalStop ==
  (result # <<>> /\ SignalDeath /\ ~StopStringInFinalText /\ ~ContinueStringMissing) =>
    /\ LoopStopped
    /\ NoLaterIteration
    /\ stopReason.kind = "killed"
    /\ stopReason.code = Last.exitCode
    /\ stopReason.iter = Last.iteration
    /\ Last.exitCode = 137 => stopReason.sigName = << "SIGKILL" >>
    /\ Last.exitCode = 128 => stopReason.sigName = << "signal", 0 >>
    /\ cumulative.completedIterations = Last.iteration
    /\ summaries[Len(summaries)].iterations = Last.iteration

\* C8 witness: exit code 137 on iteration 2 of a longer run
C8_Witness ==
  /\ result # <<>> /\ Last.exitCode = 137 /\ Last.iteration = 2
  /\ config.iterations = MaxLoop
  /\ LoopStopped /\ stopReason.sigName = << "SIGKILL" >>
  /\ cumulative.completedIterations = 2

\* C9: an exit code in 1..127 gives a failed IterationResult and does not by
\* itself stop the loop: with no sentinel triggering, the loop is on its way
\* to the next iteration while budget remains, and ends only as "all
\* iterations completed" when none remains.
C9_SoftFailure ==
  (result # <<>> /\ Last.exitCode \in 1..127) =>
    /\ ~Last.success
    /\ (~StopStringInFinalText /\ ~ContinueStringMissing /\ NoLaterIteration) =>
         IF BelowBudget(config, Last.iteration)
           THEN LoopGoesOn
           ELSE \/ LoopGoesOn
                \/ LoopStopped /\ stopReason.kind = "all iterations completed"
    /\ stopReason.kind # "killed"

\* C9 witness: iteration 1 failed with exit code 127 and iteration 2 was started
C9_Witness ==
  /\ result # <<>> /\ Last.exitCode = 127 /\ Last.iteration = 1
  /\ started = << 1, 2 >> /\ loopPc = "running"

\* the sum of a field over a history of results
SumField(s, f(_)) == SumSeq([ k \in 1..Len(s) |-> f(s[k]) ])

DurationOf(m) == m.durationMs
CostOf(m) == IF m.costUsd = <<>> THEN 0 ELSE m.costUsd[1]
InputOf(m) == IF m.tokenUsage = <<>> THEN 0 ELSE m.tokenUsage[1].inputTokens
OutputOf(m) == IF m.tokenUsage = <<>> THEN 0 ELSE m.tokenUsage[1].outputTokens

\* C10: after N iterations produced results, every cumulative field is the
\* sum of that field over the N results, a missing cost or usage counting 0.
C10_CumulativeSums ==
  /\ cumulative.completedIterations = Len(produced)
  /\ cumulative.totalDurationMs = SumField(produced, DurationOf)
  /\ cumulative.totalCostUsd = SumField(produced, CostOf)
  /\ cumulative.totalInputTokens = SumField(produced, InputOf)
  /\ cumulative.totalOutputTokens = SumField(produced, OutputOf)

\* C10 witness: three results, one without cost and usage, the last a failure
C10_Witness ==
  /\ Len(produced) = 3
  /\ \E k \in 1..3 : produced[k].costUsd = <<>> /\ produced[k].tokenUsage = <<>>
  /\ \E k \in 1..3 : produced[k].costUsd = << 3 >>
  /\ ~Last.success
  /\ cumulative.totalCostUsd > 0

CumulativeFields ==
  { "completedIterations", "totalDurationMs", "totalCostUsd",
    "totalInputTokens", "totalOutputTokens" }

\* this step is the catch block of the loop taking a rejected iteration
ThrowStep == loopPc = "running" /\ stopReason'.kind = "fatal error on iteration"

\* this step is the signal handler ending the process
InterruptStep == loopPc # "exited" /\ loopPc' = "exited"

\* C11: the cumulative stats change only in the step that produces an
\* iteration result; no field ever decreases or is negative; a step in which
\* the iteration throws, or in which the run is interrupted, leaves every
\* field unchanged.
C11_CumulativeFrame ==
  [][ /\ \A f \in CumulativeFields :
           /\ cumulative'[f] >= cumulative[f]
           /\ cumulative'[f] >= 0
      /\ cumulative' # cumulative => Len(produced') = Len(produced) + 1
      /\ (ThrowStep \/ InterruptStep) => cumulative' = cumulative ]_vars

\* an iteration threw after an earlier one had been counted with a cost
C11_Witness ==
  /\ stopReason.kind = "fatal error on iteration"
  /\ i = 2
  /\ cumulative.completedIterations = 1
  /\ cumulative.totalCostUsd > 0
  /\ cumulative.totalDurationMs > 0

\* the process has ended: runLoop returned, or a handler called process.exit
ProcessEnded == loopPc \in { "done", "exited" }

\* C12: on every way the run ends after the loop has started, the final
\* summary has been displayed exactly once and the display has been restored
\* when the process exits.
C12_SummaryOnceOnEveryEnd ==
  (ProcessEnded /\ started # <<>>) =>
    /\ Len(summaries) = 1
    /\ ~footerActive

\* the run was ended by the SIGINT/SIGTERM handler
Interrupted ==
  /\ loopPc = "exited"
  /\ summaries # <<>>
  /\ summaries[Len(summaries)].reason.kind = "user interrupted"

\* C13: when an interrupt signal ended the run, then at process exit the
\* display has been restored, the log writer that was open has been flushed
\* and closed, and the summary printed shows the cumulative stats of the
\* iterations that produced a result, not counting the one in flight.
C13_InterruptTeardown ==
  Interrupted =>
    /\ ~footerActive
    /\ logWriter \in { "none", "closed" }
    /\ summaries[Len(summaries)].iterations = Len(produced)
    /\ summaries[Len(summaries)].cost = SumSeq([k \in 1..Len(produced) |-> OrZero(produced[k].costUsd)])

\* ========================================================================
\* Claims about one iteration's event processing (checked under StreamSpec)
\* ========================================================================

AssistantVias == { "assistant_text", "assistant_tool_use", "assistant_tool_result" }

GranularVias ==
  { "text_delta", "text_flush", "thinking_delta", "tool_use_stop", "tool_result_stop" }

\* number of writes of the current turn made for block idx by the given places
Renderings(idx, vias) ==
  Cardinality({ k \in DOMAIN display :
                  /\ display[k].turn = turn
                  /\ display[k].idx = idx
                  /\ display[k].via \in vias })

\* C1: in a turn in which some blocks were delivered by granular
\* content_block events, every block that got no granular event but is
\* described by a consolidated assistant message has been rendered exactly
\* once from that message.
C1_UnstreamedRenderedOnce ==
  streamed # {} =>
    \A idx \in described \ streamed : Renderings(idx, AssistantVias) = 1

\* C2: no block is rendered more than once: a block rendered through granular
\* events is never rendered from a consolidated assistant message of the same
\* turn, and the consolidated messages render a block at most once, however
\* many of them arrive.
C2_NoBlockRenderedTwice ==
  \A idx \in Indices :
    /\ Renderings(idx, GranularVias) > 0 => Renderings(idx, AssistantVias) = 0
    /\ Renderings(idx, AssistantVias) <= 1

\* the places that show text content or open a text block
TextVias == { "text_start", "text_delta", "text_flush", "assistant_text" }

TextWrites == { k \in DOMAIN display : display[k].via \in TextVias }

LastTextWrite == display[CHOOSE k \in TextWrites : \A m \in TextWrites : m <= k]

\* the most recent text on the display came through the fallback path
FallbackTextLast == TextWrites # {} /\ LastTextWrite.via = "assistant_text"

\* that text, without the newline of writeln
FallbackText == SubSeq(LastTextWrite.text, 1, Len(LastTextWrite.text) - 1)

\* C3: after a consolidated message's text is rendered through the fallback
\* path, the tracked most recent text block equals that text, and the
\* iteration result's final text and sentinel flags are computed from it.
C3_FallbackTextTracked ==
  FallbackTextLast =>
    /\ lastTextBlock = FallbackText
    /\ pc = "done" =>
         /\ iterResult[1].finalResponse = FallbackText
         /\ iterResult[1].stopStringDetected
              = SentinelDetected(config.stopString, FallbackText)
         /\ iterResult[1].continueStringDetected
              = SentinelDetected(config.continueString, FallbackText)

\* the event of a remainder that is one JSON text, unwrapped
RemainderEvent == Unwrap(ParseJson(buffer)[1])

\* C4: once stdout has ended, a remainder that is a JSON event has been
\* dispatched and not forwarded as opaque text; when it is a result event
\* the iteration's cost and token usage are the ones it carries.
C4_RemainderDispatched ==
  (pc # "reading" /\ ParseJson(buffer) # <<>>) =>
    /\ \A k \in DOMAIN display : display[k].via # "remainder"
    /\ RemainderEvent.type = "result" =>
         /\ costUsd = << Field(RemainderEvent, "total_cost_usd") >>
         /\ Has(RemainderEvent, "usage") =>
              /\ tokenUsage # <<>>
              /\ tokenUsage[1].inputTokens = Field(RemainderEvent.usage, "input_tokens")
              /\ tokenUsage[1].outputTokens = Field(RemainderEvent.usage, "output_tokens")

\* the event processEvent handled last, with the block table it found
LastDispatched == dispatched[Len(dispatched)]

\* the last event handled was a delta for an index without an entry
OrphanDeltaLast ==
  /\ dispatched # <<>>
  /\ LastDispatched.ev.type = "content_block_delta"
  /\ Has(LastDispatched.ev, "delta")
  /\ LastDispatched.before[LastDispatched.ev.index] = <<>>

\* the fragment a delta carries
Fragment(delta) ==
  CASE delta.type = "text_delta"       -> delta.text
    [] delta.type = "thinking_delta"   -> delta.thinking
    [] delta.type = "input_json_delta" -> delta.partial_json
    [] OTHER                           -> <<>>

\* C16: when a delta has been handled for an index that had no entry in the
\* block table, the table has an entry for that index (synthesized by the
\* delta), for the following stop to find, finalize and remove.
C16_DeltaSynthesizesEntry ==
  OrphanDeltaLast => blocks[LastDispatched.ev.index] # <<>>

\* C17: when a delta has been handled for an index that had no entry, its
\* fragment has been emitted (it is in the transcript shown) or is retained
\* in the block table, whatever the kind of the delta.
C17_OrphanFragmentKept ==
  OrphanDeltaLast =>
    LET idx  == LastDispatched.ev.index
        frag == Fragment(LastDispatched.ev.delta)
    IN \/ Includes(output, frag)
       \/ /\ blocks[idx] # <<>>
          /\ Includes(blocks[idx][1].content, frag) \/ Includes(blocks[idx][1].input, frag)

\* C18: when a new turn has just begun (message_start was the last event
\* handled), the block table is empty.
C18_TableClearedAtTurnStart ==
  (dispatched # <<>> /\ LastDispatched.ev.type = "message_start") => blocks = NoBlocks

IsPrefix(a, b) == Len(a) <= Len(b) /\ SubSeq(b, 1, Len(a)) = a

\* among the events handled in this step there is a start or a stop for idx
StartOrStopHandled(idx) ==
  \E k \in (Len(dispatched) + 1)..Len(dispatched') :
    /\ dispatched'[k].ev.type \in { "content_block_start", "content_block_stop" }
    /\ dispatched'[k].ev.index = idx

Writes(via) == Cardinality({ k \in DOMAIN display : display[k].via = via })

\* C20: the thinking sections opened and not yet closed are at most one, and
\* when the iteration result has been produced every thinking section that
\* was opened has been closed.
C20_ThinkingSectionsClosed ==
  /\ Writes("thinking_open") - Writes("thinking_close") \in { 0, 1 }
  /\ (pc = "done" /\ iterResult # <<>>) =>
       /\ Writes("thinking_open") = Writes("thinking_close")
       /\ ~thinkingStarted

\* C14: when the iteration runner has returned its result (the subprocess
\* has exited by then), the debug file of the iteration does not exist.
C14_DebugFileRemoved ==
  (pc = "done" /\ iterResult # <<>>) => debugFile = "absent"

\* ========================================================================
\* Claims about the loop and the runner together (checked under SeqSpec)
\* ========================================================================

\* reader.read() has returned done or has rejected: nothing more can be read
StdoutEnded == pc \in { "stderr", "waiting", "done" }

\* the text of stderr has been read to its end
StderrEnded == pc \in { "waiting", "done" }

\* `await proc.exited` has resolved
SubprocessExited == pc = "done"

\* this step spawns a subprocess
SpawnStep == pc' = "reading" /\ reads' = 0 /\ (pc # "reading" \/ reads # 0)

\* this step produces an iteration result
ResultStep == iterResult = <<>> /\ iterResult' # <<>>

Buffered == MdFlush(md).out

\* C21: when the event stream of the iteration has ended, nothing is left
\* buffered in the Markdown sanitizer: what a text block without stop left
\* in it has been flushed to the display.
C21_SanitizerFlushedAtEnd ==
  pc \in { "stderr", "waiting", "done" } => Buffered = <<>>

IsTextStart(d) ==
  /\ d.ev.type = "content_block_start"
  /\ Has(d.ev, "content_block")
  /\ d.ev.content_block.type = "text"

IsTextDelta(d) ==
  /\ d.ev.type = "content_block_delta"
  /\ Has(d.ev, "delta")
  /\ d.ev.delta.type = "text_delta"

TextStarts == { k \in DOMAIN dispatched : IsTextStart(dispatched[k]) }

\* position in the history of the start of the text block opened last
LastTextStart == CHOOSE k \in TextStarts : \A m \in TextStarts : m <= k

\* the events handled since that start
SinceTextStart == SubSeq(dispatched, LastTextStart + 1, Len(dispatched))

\* what a sanitizer in state m writes for the text deltas of evs, write by write
RECURSIVE SanitizedWrites(_, _)
SanitizedWrites(m, evs) ==
  IF evs = <<>> THEN <<>>
  ELSE LET fed == MdFeed(m, evs[1].ev.delta.text)
       IN (IF fed.out # <<>> THEN << OrangeLines(fed.out) >> ELSE <<>>)
            \o SanitizedWrites(fed.md, Tail(evs))

TextStartWrites == { k \in DOMAIN display : display[k].via = "text_start" }

IsTextDeltaWrite(w) == w.via = "text_delta"

\* the texts written to the display for text deltas after the blank line of
\* the last text start
WrittenSinceTextStart ==
  LET k0  == CHOOSE k \in TextStartWrites : \A m \in TextStartWrites : m <= k
      own == SelectSeq(SubSeq(display, k0 + 1, Len(display)), IsTextDeltaWrite)
  IN [ n \in DOMAIN own |-> own[n].text ]

\* C22: while a text block that began with content_block_start receives its
\* deltas, what is written to the display for it is what a fresh sanitizer
\* writes for those deltas, whatever was streamed before the start.
C22_TextBlockIndependent ==
  (TextStarts # {} /\ \A k \in DOMAIN SinceTextStart : IsTextDelta(SinceTextStart[k])) =>
    WrittenSinceTextStart = SanitizedWrites(MdFresh, SinceTextStart)

\* a text block was started and fed after an earlier text was left inside an
\* unterminated inline-code span
C22_Witness ==
  /\ Len(dispatched) = 4
  /\ IsTextDelta(dispatched[1]) /\ dispatched[1].ev.delta.text = << "D" >>
  /\ IsTextDelta(dispatched[2]) /\ dispatched[2].ev.delta.text = << Backtick, "a" >>
  /\ IsTextStart(dispatched[3])
  /\ IsTextDelta(dispatched[4])
  /\ display[Len(display)].text = OrangeLines(<< Backtick, "a" >>)

\* ========================================================================
\* Claims about the markdown sanitizer (checked under SanitizerSpec)
\* ========================================================================

\* what a new sanitizer returns for t given to feed() in one call, followed
\* by what flush() returns when flushed
Reference(t, flushed) ==
  LET r == MdFeed(MdFresh, t)
  IN IF flushed THEN r.out \o MdFlush(r.md).out ELSE r.out

Flushed == sanPc = "flushed"

\* C23: however the text is split into fragments, the outputs of the feed()
\* calls, concatenated and followed by the output of flush(), are the output
\* of one feed() of the whole text followed by flush().
C23_ChunkBoundaryIndependent ==
  resetAt = <<>> => sanitized = Reference(mdFed, Flushed)

\* a text with an inline-code span was fed one character at a time, so that
\* both markers were split from the text they enclose, and flushed
C23_Witness ==
  /\ Flushed
  /\ resetAt = <<>>
  /\ mdFed = << "a", Backtick, "a", Backtick >>
  /\ calls = 4
  /\ sanitized = << "a" >> \o Styled("underline", << "a" >>)

\* the text fed, and the output returned, since reset()
FedSinceReset == SubSeq(mdFed, Len(resetAt[1].fed) + 1, Len(mdFed))

ReturnedSinceReset == SubSeq(sanitized, Len(resetAt[1].out) + 1, Len(sanitized))

\* C24: after reset() the sanitizer behaves on the input that follows as a
\* new sanitizer does, whatever was fed before: what was buffered at the
\* reset is dropped and never emitted.
C24_ResetIsFresh ==
  resetAt # <<>> =>
    /\ SubSeq(sanitized, 1, Len(resetAt[1].out)) = resetAt[1].out
    /\ ReturnedSinceReset = Reference(FedSinceReset, Flushed)

\* reset() was called while text was buffered, more text was fed and flushed
C24_Witness ==
  /\ Flushed
  /\ resetAt # <<>>
  /\ resetAt[1].buffered # <<>>
  /\ FedSinceReset # <<>>
  /\ ReturnedSinceReset # <<>>

\* the interior lines as the sanitizer emits them
RECURSIVE QuotedLines(_)
QuotedLines(lines) ==
  IF lines = <<>> THEN <<>>
  ELSE FencePrefix \o lines[1] \o << "\n" >> \o QuotedLines(Tail(lines))

\* C25: of a well-formed fenced code block the output holds neither the
\* opening fence line (language tag included) nor the closing fence line, and
\* holds every interior line behind the quoting prefix.
C25_FenceLinesSuppressed ==
  (Flushed /\ resetAt = <<>>) =>
    \A f \in FencedBlocks :
      mdText = FencedText(f) => sanitized = f.before \o QuotedLines(f.lines)

\* a block with a language tag, two interior lines and a closing fence of
\* four backticks and a blank went through the sanitizer in several fragments
C25_Witness ==
  /\ Flushed
  /\ resetAt = <<>>
  /\ calls > 1
  /\ mdText = FencedText([ before |-> << "a", "\n" >>, tag |-> << "a" >>,
                           lines |-> << << "a" >>, << "*", "*" >> >>,
                           close |-> Fence3 \o << Backtick, " ", "\n" >> ])
  /\ sanitized = << "a", "\n" >> \o FencePrefix \o << "a", "\n" >>
                   \o FencePrefix \o << "*", "*", "\n" >>

IsSuffix(s, t) ==
  /\ Len(s) <= Len(t)
  /\ SubSeq(t, Len(t) - Len(s) + 1, Len(t)) = s

\* the marker that opened the span the sanitizer is in
OpeningMarker(state) ==
  IF state = "InlineCode" THEN << Backtick >> ELSE << "*", "*" >>

\* C26: when the input leaves a bold or inline-code span unterminated,
\* flush() returns the input from the opening marker on (the buffered text
\* behind its marker) and leaves nothing buffered.
C26_UnterminatedSpanFlushed ==
  (Flushed /\ lastFlush[1].state \in { "InlineCode", "Bold", "BoldStar1" }) =>
    LET out == lastFlush[1].out
    IN /\ IsSuffix(out, mdFed)
       /\ IsPrefix(OpeningMarker(lastFlush[1].state), out)
       /\ streamer = MdFresh
       /\ MdFlush(streamer).out = <<>>

\* flush() found text buffered in an unterminated bold span
C26_Witness ==
  /\ Flushed
  /\ lastFlush[1].state = "Bold"
  /\ lastFlush[1].out = << "*", "*", "a" >>

\* ========================================================================
\* Claims about the lines of stdout (checked under StreamSpec)
\* ========================================================================

\* the block table, the sanitizer, the flags, the last text block and the
\* metrics of the iteration
structured == << blocks, md, thinkingStarted, hasStreamedContent, lastTextBlock,
                 tokenUsage, costUsd, liveStats >>

\* the read completes exactly one line, which is not blank and which
\* JSON.parse rejects
RawLineRead(chunk) ==
  /\ ReadChunk(chunk)
  /\ IndexOfNewline(buffer \o chunk, 1) = Len(buffer \o chunk)
  /\ Trim(LineText(SubSeq(buffer \o chunk, 1, Len(buffer \o chunk) - 1))) # <<>>
  /\ ParseJson(SubSeq(buffer \o chunk, 1, Len(buffer \o chunk) - 1)) = <<>>

\* C27: a line of stdout that JSON.parse rejects is no failure: it is written
\* to the display as it is, it is appended to the transcript, no event is
\* dispatched for it, the structured state stays as it was and the read loop
\* goes on with an empty buffer.
C27_RawLineForwarded ==
  [][ \A chunk \in Chunks :
        RawLineRead(chunk) =>
          LET line == LineText(SubSeq(buffer \o chunk, 1, Len(buffer \o chunk) - 1))
          IN /\ Len(display') = Len(display) + 1
             /\ SubSeq(display', 1, Len(display)) = display
             /\ display'[Len(display')].text = line \o << "\n" >>
             /\ output' = output \o line \o << "\n" >>
             /\ dispatched' = dispatched
             /\ UNCHANGED structured
             /\ pc' = "reading"
             /\ buffer' = <<>> ]_vars

\* a line that is not JSON was forwarded while the sanitizer held the text of
\* an unterminated inline-code span, which it still holds
C27_Witness ==
  /\ display # <<>>
  /\ display[Len(display)].via = "raw"
  /\ display[Len(display)].text = << "x", "\n" >>
  /\ IsSuffix(<< "x", "\n" >>, output)
  /\ md.state = "InlineCode"
  /\ md.inlineCodeBuf = << "a" >>
  /\ pc = "reading"

\* the top-level event types processEvent has a case for
KnownTypes ==
  { "system", "content_block_start", "content_block_delta", "content_block_stop",
    "assistant", "user", "result", "message_start", "message_delta", "message_stop",
    "ping" }

\* the read completes exactly one line, which holds an event of a type
\* processEvent has no case for
UnknownEventRead(chunk) ==
  /\ ReadChunk(chunk)
  /\ IndexOfNewline(buffer \o chunk, 1) = Len(buffer \o chunk)
  /\ LET parsed == ParseJson(SubSeq(buffer \o chunk, 1, Len(buffer \o chunk) - 1))
     IN IF parsed = <<>> THEN FALSE ELSE Unwrap(parsed[1]).type \notin KnownTypes

\* C28: an event of an unrecognized top-level type is ignored without error:
\* block table, sanitizer, flags, last text block, transcript and metrics
\* stay as they were and, the run not being verbose, nothing is written to
\* the display.
C28_UnknownEventIgnored ==
  [][ \A chunk \in Chunks :
        UnknownEventRead(chunk) =>
          /\ ~config.verbose
          /\ UNCHANGED << structured, output, display >>
          /\ Len(dispatched') = Len(dispatched) + 1
          /\ pc' = "reading" ]_vars

\* an event of an unknown type was the last one handled, in the middle of a
\* streamed text
C28_Witness ==
  /\ dispatched # <<>>
  /\ dispatched[Len(dispatched)].ev.type = "future_event"
  /\ md.state = "InlineCode"
  /\ display # <<>>
  /\ output # <<>>
  /\ pc = "reading"

\* the result events handled in the iteration, by position in the history
ResultsDispatched == { k \in DOMAIN dispatched : dispatched[k].ev.type = "result" }

\* the token usage a result event carries
UsageCarried(ev) ==
  IF Has(ev, "usage")
    THEN << [ inputTokens         |-> Field(ev.usage, "input_tokens"),
              outputTokens        |-> Field(ev.usage, "output_tokens"),
              cacheReadTokens     |-> Field(ev.usage, "cache_read_input_tokens"),
              cacheCreationTokens |-> Field(ev.usage, "cache_creation_input_tokens") ] >>
    ELSE <<>>

\* the cost a result event carries, zero when it carries none
CostCarried(ev) == IF Has(ev, "total_cost_usd") THEN ev.total_cost_usd ELSE 0

AssistantUsageSeen ==
  \E k \in DOMAIN dispatched :
    /\ dispatched[k].ev.type = "assistant"
    /\ Has(dispatched[k].ev.message, "usage")

\* C29: the IterationResult of an iteration whose result event was handled
\* has the token usage and the cost of that event, whatever usage the
\* assistant messages carried, and cost zero when the event carries no cost.
C29_ResultEventAuthoritative ==
  (pc = "done" /\ Cardinality(ResultsDispatched) = 1) =>
    LET ev == dispatched[CHOOSE k \in ResultsDispatched : TRUE].ev
    IN /\ iterResult[1].tokenUsage = UsageCarried(ev)
       /\ iterResult[1].costUsd = << CostCarried(ev) >>

\* the iteration returned after an assistant message with usage and a result
\* event with other figures
C29_Witness ==
  /\ pc = "done"
  /\ Cardinality(ResultsDispatched) = 1
  /\ AssistantUsageSeen
  /\ iterResult[1].tokenUsage # <<>>
  /\ iterResult[1].tokenUsage[1].inputTokens = 2
  /\ iterResult[1].costUsd = << 5 >>

\* the iteration returned after a result event without cost
C29_WitnessNoCost ==
  /\ pc = "done"
  /\ Cardinality(ResultsDispatched) = 1
  /\ iterResult[1].costUsd = << 0 >>

\* ========================================================================
\* Claims about the final summary (checked under LoopSpec)
\* ========================================================================

\* the reasons of a normal completion
NormalCompletion == { "all iterations completed", "loop finished" }

\* C30: the final summary shows why the loop stopped and how badly: only a
\* normal completion is presented as a success (green, "Cig Loop Complete"),
\* every other stop reason as a warning or an error.
C30_SeverityByReason ==
  \A k \in DOMAIN summaries :
    (summaries[k].color = "green" \/ summaries[k].heading = "Cig Loop Complete")
      => summaries[k].reason.kind \in NormalCompletion

\* ========================================================================
\* Claims about the rerun command (checked under RerunSpec)
\* ========================================================================

\* C31: the configuration built from the printed rerun command in
\* non-interactive mode is the effective configuration it was printed for,
\* iteration count 0 (unbounded) included.
C31_RerunReproducesConfig ==
  rerunConfig # <<>> => rerunConfig[1] = config

\* ========================================================================
\* Claims about the end of the loop and the delay (checked under LoopSpec)
\* ========================================================================

SummaryKinds == { summaries[k].reason.kind : k \in DOMAIN summaries }

\* the last iteration returned a result that triggers no stop condition
LastTriggersNoStop ==
  /\ result # <<>>
  /\ StopDecision(config, result[1], result[1].iteration) = NoReason

\* the configured number of iterations have produced results
CountReached ==
  /\ config.iterations > 0
  /\ Len(produced) = config.iterations
  /\ Len(started) = config.iterations

\* C32: the loop ends with "all iterations completed" exactly when a count
\* N > 0 is configured and N iterations produced results without a stop
\* condition; with count 0 it never does: the step after an iteration without
\* stop condition starts the next one (after the delay, if any), and every
\* summary names a sentinel, a signal, a fatal error or the interruption.
C32_AllIterationsCompleted ==
  /\ []( "all iterations completed" \in SummaryKinds =>
           (CountReached /\ LastTriggersNoStop) )
  /\ []( (loopPc \in { "closing", "done" } /\ CountReached /\ LastTriggersNoStop) =>
           SummaryKinds = { "all iterations completed" } )
  /\ []( config.iterations = 0 =>
           SummaryKinds \subseteq { "stop-string", "continue-string", "killed",
                                    "fatal error on iteration", "fatal error",
                                    "user interrupted" } )
  /\ [][ (config.iterations = 0 /\ loopPc \in { "trimming", "sleeping" }
            /\ loopPc' \notin { loopPc, "exited" }) =>
           \/ loopPc' = "sleeping" /\ sleeps' = Append(sleeps, i)
           \/ loopPc' = "running" /\ started' = Append(started, i + 1) ]_vars

\* a run of two configured iterations ended after both produced a result
C32_Witness ==
  /\ loopPc = "done"
  /\ config.iterations = 2
  /\ Len(produced) = 2
  /\ SummaryKinds = { "all iterations completed" }

\* an unbounded run started its third iteration
C32_WitnessUnbounded ==
  /\ config.iterations = 0
  /\ loopPc = "running"
  /\ Len(started) = 3

Slept == { sleeps[k] : k \in DOMAIN sleeps }

Started == { started[k] : k \in DOMAIN started }

\* C33: with a positive delay configured, the delay is taken after iteration
\* n exactly when iteration n + 1 is started: every iteration but the first
\* follows a delay, every delay is followed by the next iteration (unless the
\* process is interrupted while it sleeps), and a run that left the loop, by
\* the count or by a stop condition, took no delay after its last iteration.
\* Without a delay configured none is taken.
C33_DelayOnlyBetweenIterations ==
  /\ config.delaySeconds = 0 => sleeps = <<>>
  /\ config.delaySeconds > 0 =>
       /\ \A n \in Started : n > 1 => (n - 1) \in Slept
       /\ \A n \in Slept : \/ (n + 1) \in Started
                           \/ n = i /\ loopPc \in { "sleeping", "exited" }
       /\ Len(sleeps) = Cardinality(Slept)
       /\ loopPc \in { "closing", "done" } => Len(started) \notin Slept

\* a run with a delay ended by a stop condition in its second iteration,
\* with one delay, after the first iteration
C33_Witness ==
  /\ config.delaySeconds > 0
  /\ loopPc = "done"
  /\ sleeps = << 1 >>
  /\ started = << 1, 2 >>
  /\ stopReason.kind = "stop-string"

\* ========================================================================
\* Claims about the final text of an iteration (checked under StreamSpec)
\* ========================================================================

\* the text_delta fragments of the events evs, concatenated in order
RECURSIVE ConcatTextDeltas(_)
ConcatTextDeltas(evs) ==
  IF evs = <<>> THEN <<>>
  ELSE (IF IsTextDelta(evs[1]) THEN evs[1].ev.delta.text ELSE <<>>)
         \o ConcatTextDeltas(Tail(evs))

\* the fragments received since the most recent text content_block_start
\* (since the start of the iteration when there was none)
TextSinceStart ==
  ConcatTextDeltas(IF TextStarts = {} THEN dispatched ELSE SinceTextStart)

\* C34: the final text of the IterationResult is the concatenation, in order
\* of arrival, of the text_delta fragments received since the most recent
\* text content_block_start, and each sentinel flag is true exactly when the
\* string is configured and occurs in that text.
C34_FinalTextFromDeltas ==
  pc = "done" =>
    /\ iterResult[1].finalResponse = TextSinceStart
    /\ iterResult[1].stopStringDetected =
         (config.stopString # <<>> /\ Includes(TextSinceStart, config.stopString))
    /\ iterResult[1].continueStringDetected =
         (config.continueString # <<>> /\ Includes(TextSinceStart, config.continueString))

\* the continue sentinel arrived split across two deltas after the start of
\* the text block and was found
C34_Witness ==
  /\ pc = "done"
  /\ Len(dispatched) = 3
  /\ IsTextStart(dispatched[1])
  /\ IsTextDelta(dispatched[2])
  /\ IsTextDelta(dispatched[3])
  /\ iterResult[1].finalResponse = << Backtick, "a", "D" >>
  /\ iterResult[1].continueStringDetected
  /\ iterResult[1].stopStringDetected

\* ========================================================================
\* Claims about the draining of the subprocess (checked under DrainSpec)
\* ========================================================================

IsOpaque(entry) == entry.via \in { "raw", "remainder" }

\* the events dispatched and the opaque lines forwarded, each in order
Framing(R) ==
  [ events    |-> [ k \in 1..Len(R.dispatched) |-> R.dispatched[k].ev ],
    forwarded |-> SelectSeq(R.display, IsOpaque),
    output    |-> R.output ]

\* what the iteration ends with when the whole stream arrives in one chunk
FramingInOneRead ==
  LET D == Decode(<<>>, stdoutRead \o Pending, <<>>)
      P == ProcessBuffer(RunFresh, D.text, config.verbose)
  IN Framing(ProcessRemainder(P.run, P.buffer))

\* what the iteration ends with when all that is left arrives in one chunk
FramingAhead ==
  IF pc # "reading" THEN Framing(Run)
  ELSE LET D == Decode(decoder, Pending, <<>>)
           P == ProcessBuffer(Run, buffer \o D.text, config.verbose)
       IN Framing(ProcessRemainder(P.run, P.buffer))

\* C36: however the reads cut the stream, the events dispatched and the
\* opaque lines forwarded are those of reading the stream in one chunk.
\* Events are dispatched without their stream_event envelope and no blank
\* line is forwarded.
C36_FramingIndependentOfChunks ==
  /\ FramingAhead = FramingInOneRead
  /\ \A k \in 1..Len(dispatched) : dispatched[k].ev.type # "stream_event"
  /\ \A k \in 1..Len(display) :
       display[k].via = "raw" => Trim(display[k].text) # <<>>

\* a stream of an enveloped event and a line with a two-byte character
\* was read one byte at a time
C36_Witness ==
  /\ pc = "stderr"
  /\ reads = 6
  /\ Len(dispatched) = 1
  /\ dispatched[1].ev = BlockDelta(1, TextDelta(<< "a" >>))
  /\ \E k \in 1..Len(display) :
       display[k].via = "raw" /\ display[k].text = << "U+00E9", "\n" >>

\* ========================================================================
\* Claims about single steps of the sanitizer (checked under SanitizerSpec)
\* ========================================================================

\* the states in which an inline construct is open
OpenSpans == { "InlineCode", "Star1", "Bold", "BoldStar1" }

\* feed("\n") is called while an inline construct is open
NewlineFedInSpan ==
  /\ sanPc = "feeding"
  /\ streamer.state \in OpenSpans
  /\ Rest # <<>>
  /\ Head(Rest) = "\n"
  /\ mdFed' = Append(mdFed, "\n")

NothingBuffered(m) ==
  /\ m.lineStartBuf = <<>>
  /\ m.inlineCodeBuf = <<>>
  /\ m.boldBuf = <<>>
  /\ m.fenceLineBuf = <<>>

\* C37: a newline fed while an inline construct is open (InlineCode, Star1,
\* Bold, BoldStar1) ends the construct in that step: the call returns the
\* buffered text followed by the newline and leaves the streamer at the
\* line start with empty buffers.
C37_NewlineEndsSpan ==
  [][NewlineFedInSpan =>
       /\ streamer'.state = "LineStart"
       /\ NothingBuffered(streamer')
       /\ Len(sanitized') > Len(sanitized) + Len(streamer.inlineCodeBuf) + Len(streamer.boldBuf)
       /\ sanitized'[Len(sanitized')] = "\n"]_vars

\* ========================================================================
\* Claims about whole texts given to the sanitizer (checked under
\* SanitizerSpec)
\* ========================================================================

PlainChars == { "a", " " }

Backticks(t) == { k \in 1..Len(t) : t[k] = Backtick }

SpanOpen(t) == CHOOSE k \in Backticks(t) : \A j \in Backticks(t) : k <= j

SpanClose(t) == CHOOSE k \in Backticks(t) : \A j \in Backticks(t) : j <= k

\* a line of plain characters with one inline code span `text` in it
HasOneSpan(t) ==
  /\ Cardinality(Backticks(t)) = 2
  /\ \A k \in 1..Len(t) : t[k] \in PlainChars \cup { Backtick }
  /\ SpanClose(t) > SpanOpen(t) + 1

\* the line with the backticks of its span stripped and the span styled
SpanRendered(t) ==
  SubSeq(t, 1, SpanOpen(t) - 1)
    \o Styled("underline", SubSeq(t, SpanOpen(t) + 1, SpanClose(t) - 1))
    \o SubSeq(t, SpanClose(t) + 1, Len(t))

\* C38: a line with one inline code span `text`, wherever the span is on
\* the line, comes out with the backticks stripped and the text of the
\* span in the emphasis style.
C38_InlineCodeStripped ==
  (HasOneSpan(mdText) /\ Rest = <<>> /\ resetAt = <<>>) => sanitized = SpanRendered(mdText)

\* no backtick, asterisk or '#' in the text
IsPlainText(t) == \A k \in 1..Len(t) : t[k] \notin { Backtick, "*", "#" }

\* C39: for a text without backtick, asterisk and '#', after every call
\* of feed() all that was fed has been returned unchanged (so each call
\* returned exactly its input), nothing is buffered, and flush() returns
\* the empty string.
C39_PlainTextPassesThrough ==
  IsPlainText(mdText) =>
    /\ sanitized = mdFed
    /\ NothingBuffered(streamer)
    /\ MdFlush(streamer).out = <<>>
    /\ lastFlush # <<>> => lastFlush[1].out = <<>>

\* a plain text of two lines was fed in several calls and flushed
C39_Witness ==
  /\ IsPlainText(mdText)
  /\ mdText = << " ", "a", "\n", "a" >>
  /\ calls >= 2
  /\ sanPc = "flushed"
  /\ sanitized = mdText

\* ========================================================================
\* Claims about the usage cache (checked under UsageSpec)
\* ========================================================================

\* the calls of doFetch that have not returned
Unsettled == { p \in 1..Len(fetches) : fetches[p].pc # "settled" }

\* the requests sent to the endpoint and not answered
Outstanding == { p \in 1..Len(fetches) : fetches[p].pc = "fetching" }

Owners == { c \in 1..MaxCallers : callers[c].pc = "owner" }

\* C40: at most one fetch is in flight and at most one request is
\* outstanding; the fetch in flight is the one the marker names; all calls
\* that waited for the same fetch return what that fetch resolved with; and
\* the marker is set only while the call that started the fetch has not
\* resumed from it, so that it is cleared once the fetch has settled and that
\* call has run on.
C40_FetchesDeduplicated ==
  /\ Cardinality(Unsettled) <= 1
  /\ Cardinality(Outstanding) <= 1
  /\ \A p \in Unsettled : fetchInProgress = p
  /\ \A c \in 1..MaxCallers :
       (callers[c].pc = "returned" /\ callers[c].promise # 0) =>
         /\ fetches[callers[c].promise].pc = "settled"
         /\ callers[c].result = << fetches[callers[c].promise].value >>
  /\ \A c \in 1..MaxCallers :
       callers[c].pc = "joined" => callers[c].promise \in 1..Len(fetches)
  /\ fetchInProgress # 0 =>
       \E c \in Owners : callers[c].promise = fetchInProgress
  /\ Owners = {} => fetchInProgress = 0

\* two calls shared the first fetch and returned its data, the marker was
\* cleared, and a later call has a second request outstanding
C40_Witness ==
  /\ Len(fetches) = 2
  /\ fetches[1].pc = "settled"
  /\ fetches[1].value # <<>>
  /\ fetches[2].pc = "fetching"
  /\ fetchInProgress = 2
  /\ \E c1, c2 \in 1..MaxCallers :
       /\ c1 # c2
       /\ callers[c1].pc = "returned" /\ callers[c1].promise = 1
       /\ callers[c2].pc = "returned" /\ callers[c2].promise = 1
       /\ callers[c1].result = callers[c2].result

====
